---- MODULE Spec2Model ----
(***************************************************************************)
(* Model of the COPY mode of the STKO geometry copy tool                   *)
(* (src/STKO_Geometry_Analyzer_Copier.py; src/Copy_STKO_data.py holds the  *)
(* same functions): coordinate comparison, subshape locators, subgeometry  *)
(* disambiguation, name correlation, property get-or-create, the           *)
(* assignment replay of assign_properties_to_geometries and the            *)
(* reconstruction of the interactions by recreate_interactions.            *)
(*                                                                         *)
(* Conventions.                                                            *)
(*  - A coordinate dict is a record [k, x, y, z, nul]: k = "none" is the   *)
(*    Python None, k = "nox" a dict without the key 'x', k = "pt" a dict   *)
(*    with the three keys; nul is the set of keys whose value is None.     *)
(*  - Coordinates are integers in units of half the tolerance, so that     *)
(*    COORD_TOLERANCE (1e-6) is 2 units.                                   *)
(*  - A call result is a record [st, id]: st = "found" with the returned   *)
(*    index, st = "none" for the Python None, st = "raise" when the call   *)
(*    leaves by an exception.                                              *)
(*  - Subshape indices are 0-based as in the code; sequences are 1-based.  *)
(*  - Names are sequences of characters.                                   *)
(***************************************************************************)
EXTENDS Integers, Sequences, FiniteSets, TLC

\* --------------------------------------------------------------------------
\* Bounds of the model
\* --------------------------------------------------------------------------
MaxRuns == 2

MaxPts == 2

MaxNames == 3

MaxAtts == 2

\* --------------------------------------------------------------------------
\* COORDINATE MATCHING SYSTEM
\* --------------------------------------------------------------------------
COORD_TOLERANCE == 2

Abs(n) == IF n < 0 THEN 0 - n ELSE n

Pt(x, y, z) == [k |-> "pt", x |-> x, y |-> y, z |-> z, nul |-> {}]

\* {'x': None, 'y': None, 'z': None}: what extract_vertex_coordinates returns
\* when shape.vertexPosition fails.
NullPt == [k |-> "pt", x |-> 0, y |-> 0, z |-> 0, nul |-> {"x", "y", "z"}]

NonePt == [k |-> "none", x |-> 0, y |-> 0, z |-> 0, nul |-> {}]

NoXPt == [k |-> "nox", x |-> 0, y |-> 0, z |-> 0, nul |-> {}]

\* variant: the difference without abs
AxisMatchSigned(coord1, coord2, ax, tolerance) ==
    IF ax \in coord1.nul \cup coord2.nul THEN "E"
    ELSE IF coord1[ax] - coord2[ax] < tolerance THEN "T" ELSE "F"

\* abs(coord1[ax] - coord2[ax]) < tolerance; the subtraction raises TypeError
\* when either value is None.
AxisMatch(coord1, coord2, ax, tolerance) ==
    IF ax \in coord1.nul \cup coord2.nul THEN "E"
    ELSE IF Abs(coord1[ax] - coord2[ax]) < tolerance THEN "T" ELSE "F"

\* coordinates_match(coord1, coord2, tolerance).  Result "T" / "F", or "E"
\* when the comparison raises.  The three axes are evaluated left to right
\* with the short circuit of `and`.
CoordinatesMatchWithin(coord1, coord2, tolerance) ==
    IF coord1.k = "none" \/ coord2.k = "none" THEN "F"
    ELSE IF coord1.k = "nox" \/ coord2.k = "nox" THEN "F"
    ELSE LET rx == AxisMatch(coord1, coord2, "x", tolerance) IN
         IF rx # "T" THEN rx
         ELSE LET ry == AxisMatch(coord1, coord2, "y", tolerance) IN
              IF ry # "T" THEN ry
              ELSE AxisMatch(coord1, coord2, "z", tolerance)

\* the call with the default tolerance=COORD_TOLERANCE, as every caller
\* makes it
coordinates_match(coord1, coord2) ==
    CoordinatesMatchWithin(coord1, coord2, COORD_TOLERANCE)

\* any(coordinates_match(c, o) for o in others), evaluated from position i
RECURSIVE AnyMatchFrom(_, _, _)
AnyMatchFrom(c, others, i) ==
    IF i > Len(others) THEN "F"
    ELSE LET r == coordinates_match(c, others[i]) IN
         IF r = "F" THEN AnyMatchFrom(c, others, i + 1) ELSE r

\* all(any(coordinates_match(c, o) for o in others) for c in coords),
\* evaluated from position i
RECURSIVE AllAnyFrom(_, _, _)
AllAnyFrom(coords, others, i) ==
    IF i > Len(coords) THEN "T"
    ELSE LET r == AnyMatchFrom(coords[i], others, 1) IN
         IF r = "T" THEN AllAnyFrom(coords, others, i + 1) ELSE r

Found(i) == [st |-> "found", id |-> i]

NotFound == [st |-> "none", id |-> 0]

Raised == [st |-> "raise", id |-> 0]

\* extract_vertex_coordinates(shape, v_id): the vertex list of the shape holds
\* NullPt where the kernel fails to give a position.
extract_vertex_coordinates(shape, v_id) ==
    IF v_id + 1 \in DOMAIN shape.verts THEN shape.verts[v_id + 1] ELSE NullPt

\* [extract_vertex_coordinates(shape, v_id) for v_id in vertices]
ChildCoords(shape, vertices) ==
    [j \in 1..Len(vertices) |-> extract_vertex_coordinates(shape, vertices[j])]

RECURSIVE FindVertexFrom(_, _, _)
FindVertexFrom(shape, target_coords, v_id) ==
    IF v_id >= Len(shape.verts) THEN NotFound
    ELSE LET r == coordinates_match(extract_vertex_coordinates(shape, v_id),
                                    target_coords) IN
         IF r = "E" THEN Raised
         ELSE IF r = "T" THEN Found(v_id)
         ELSE FindVertexFrom(shape, target_coords, v_id + 1)

find_vertex_by_coordinates(shape, target_coords) ==
    FindVertexFrom(shape, target_coords, 0)

\* variant: the test without the comparison of the lengths
CandidateMatchesAnyLength(cand_coords, target_vertex_coords) ==
    AllAnyFrom(cand_coords, target_vertex_coords, 1) = "T"

\* The test made on one candidate subshape inside the try block of the three
\* locators: equal length, then all(any(match(cand, tgt)) for cand).  An
\* exception is swallowed by the bare except and the candidate is passed over.
CandidateMatches(cand_coords, target_vertex_coords) ==
    /\ Len(cand_coords) = Len(target_vertex_coords)
    /\ AllAnyFrom(cand_coords, target_vertex_coords, 1) = "T"

\* The scan shared by find_edge_by_vertices, find_face_by_vertices and
\* find_solid_by_vertices over the subshapes of one kind.
RECURSIVE FindByVerticesFrom(_, _, _, _)
FindByVerticesFrom(shape, kind, target_vertex_coords, s_id) ==
    IF s_id >= Len(shape[kind]) THEN NotFound
    ELSE IF CandidateMatches(ChildCoords(shape, shape[kind][s_id + 1]),
                             target_vertex_coords)
         THEN Found(s_id)
         ELSE FindByVerticesFrom(shape, kind, target_vertex_coords, s_id + 1)

find_edge_by_vertices(shape, target_vertex_coords) ==
    FindByVerticesFrom(shape, "edges", target_vertex_coords, 0)

find_face_by_vertices(shape, target_vertex_coords) ==
    FindByVerticesFrom(shape, "faces", target_vertex_coords, 0)

find_solid_by_vertices(shape, target_vertex_coords) ==
    FindByVerticesFrom(shape, "solids", target_vertex_coords, 0)

\* --------------------------------------------------------------------------
\* Subgeometry disambiguation
\* --------------------------------------------------------------------------

\* geom_data['properties'][cls][kind]: the records of a snapshot geometry are
\* kept as one list in the order physical vertices, edges, faces, solids,
\* element vertices, edges, faces, solids.
PropsList(geom_data, cls, kind) ==
    SelectSeq(geom_data.records, LAMBDA r : r.cls = cls /\ r.kind = kind)

\* imported_coords: the live vertices whose x is not None
ImportedCoords(shape) ==
    SelectSeq(shape.verts, LAMBDA c : "x" \notin c.nul)

\* subgeom_coords_map as the list of its (idx, coords) items in insertion
\* order: a record enters when its index is not yet a key and its coordinate
\* list is not empty.
RECURSIVE SubgeomCoordsMap(_, _, _)
SubgeomCoordsMap(props_list, i, acc) ==
    IF i > Len(props_list) THEN acc
    ELSE LET prop == props_list[i]
             known == \E j \in 1..Len(acc) : acc[j].idx = prop.sub_id
         IN IF ~known /\ prop.coords # <<>>
            THEN SubgeomCoordsMap(props_list, i + 1,
                     Append(acc, [idx |-> prop.sub_id, coords |-> prop.coords]))
            ELSE SubgeomCoordsMap(props_list, i + 1, acc)

RECURSIVE MatchGroupFrom(_, _, _)
MatchGroupFrom(groups, imported_coords, i) ==
    IF i > Len(groups) THEN NotFound
    ELSE IF Len(groups[i].coords) # Len(imported_coords)
         THEN MatchGroupFrom(groups, imported_coords, i + 1)
         ELSE LET r == AllAnyFrom(imported_coords, groups[i].coords, 1) IN
              IF r = "E" THEN Raised
              ELSE IF r = "T" THEN Found(groups[i].idx)
              ELSE MatchGroupFrom(groups, imported_coords, i + 1)

\* subgeom_type is one of "solids", "edges", "faces" ('solid', 'edge', 'face'
\* in the code); anything else returns None.
find_matching_subgeometry_index(shape, geom_data, subgeom_type) ==
    LET imported_coords == ImportedCoords(shape) IN
    IF imported_coords = <<>> THEN NotFound
    ELSE IF subgeom_type \notin {"solids", "edges", "faces"} THEN NotFound
    ELSE LET props_list == PropsList(geom_data, "physical", subgeom_type)
                           \o PropsList(geom_data, "element", subgeom_type)
         IN MatchGroupFrom(SubgeomCoordsMap(props_list, 1, <<>>),
                           imported_coords, 1)

\* --------------------------------------------------------------------------
\* Name correlation
\* --------------------------------------------------------------------------

\* Python `s in t` on strings
IsSubstring(s, t) ==
    \E i \in 0..(Len(t) - Len(s)) : SubSeq(t, i + 1, i + Len(s)) = s

\* variant: each substring score adds the length of the other name
MatchScoreOtherLength(json_name, imported_name) ==
    IF json_name = imported_name THEN 100
    ELSE IF IsSubstring(json_name, imported_name)
    THEN 50 + Len(imported_name)
    ELSE IF IsSubstring(imported_name, json_name) THEN 30 + Len(json_name)
    ELSE 0

\* variant: names that have nothing in common still score above 0
MatchScoreNeverZero(json_name, imported_name) ==
    IF json_name = imported_name THEN 100
    ELSE IF IsSubstring(json_name, imported_name) THEN 50 + Len(json_name)
    ELSE IF IsSubstring(imported_name, json_name) THEN 30 + Len(imported_name)
    ELSE 1

\* variant: the branch `elif imported_name in json_name` is missing
MatchScoreWithoutReverse(json_name, imported_name) ==
    IF json_name = imported_name THEN 100
    ELSE IF IsSubstring(json_name, imported_name) THEN 50 + Len(json_name)
    ELSE 0

match_score(json_name, imported_name) ==
    IF json_name = imported_name THEN 100
    ELSE IF IsSubstring(json_name, imported_name) THEN 50 + Len(json_name)
    ELSE IF IsSubstring(imported_name, json_name) THEN 30 + Len(imported_name)
    ELSE 0

\* variant: `>=`, a later snapshot geometry of equal score replaces the best
IsBetterOrEqual(match_score_v, best_match_score) ==
    match_score_v >= best_match_score

\* `if match_score > best_match_score`
IsBetter(match_score_v, best_match_score) == match_score_v > best_match_score

\* The inner loop over geometries_data: gi is the position of the best
\* snapshot geometry so far (0 for geom_data = None).
RECURSIVE CorrelateFrom(_, _, _, _, _)
CorrelateFrom(names, imported_name, i, gi, best_match_score) ==
    IF i > Len(names) THEN [gi |-> gi, score |-> best_match_score]
    ELSE LET s == match_score(names[i], imported_name) IN
         IF IsBetter(s, best_match_score)
         THEN CorrelateFrom(names, imported_name, i + 1, i, s)
         ELSE CorrelateFrom(names, imported_name, i + 1, gi, best_match_score)

Correlate(names, imported_name) == CorrelateFrom(names, imported_name, 1, 0, 0)

\* --------------------------------------------------------------------------
\* Property get-or-create
\* --------------------------------------------------------------------------

\* Type identifiers for which doc.metaDataPhysicalProperty /
\* doc.metaDataElementProperty give a meta object; for any other identifier
\* the call raises.  'Unknown' is what the capture writes for a property
\* without XObject.
KnownTypes == {"Elastic", "Other"}

\* An attribute of an XObject: the value fields it has, whether a write to
\* it raises, and its value (0 as long as none was written).
Attr(has, rejects) == [has |-> has, rejects |-> rejects, val |-> 0]

\* MpcXObject.createInstanceOf(meta).attributes for the known type
\* identifiers: attribute name -> attribute
XObjectAttributes(prop_type) ==
    IF prop_type = "Elastic"
    THEN [n \in {"E", "nu", "rho", "label"} |->
             IF n = "label" THEN Attr({"string"}, FALSE)
             ELSE IF n = "rho" THEN Attr({"real"}, TRUE)
             ELSE Attr({"real"}, FALSE)]
    ELSE [n \in {"E"} |-> Attr({"real", "string"}, FALSE)]

\* the branch of set_attribute_value taken for the value: the first value
\* field the attribute has and whose type the value has, "none" when no
\* branch applies
ValueField(attr, value) ==
    IF "real" \in attr.has /\ value.t = "number" THEN "real"
    ELSE IF "string" \in attr.has /\ value.t = "string" THEN "string"
    ELSE "none"

\* set_attribute_value: the branch taken writes the value; an exception of
\* the write is caught inside, the attribute keeps its value and the call
\* returns.  Result: the attribute afterwards.
set_attribute_value(attr, value) ==
    IF ValueField(attr, value) = "none" \/ attr.rejects THEN attr
    ELSE [attr EXCEPT !.val = value.v]

\* the loop `for param_name, param_value in prop_data['parameters'].items()`
\* from position i: a parameter whose name the XObject has is given to
\* set_attribute_value, any other is passed over
RECURSIVE ApplyParametersFrom(_, _, _)
ApplyParametersFrom(attributes, parameters, i) ==
    IF i > Len(parameters) THEN attributes
    ELSE LET param == parameters[i] IN
         IF param.name \notin DOMAIN attributes
         THEN ApplyParametersFrom(attributes, parameters, i + 1)
         ELSE ApplyParametersFrom(
                  [attributes EXCEPT ![param.name] =
                      set_attribute_value(@, param.value)],
                  parameters, i + 1)

\* variant: the loop without the two try blocks, from position i: TRUE when
\* a write raises
RECURSIVE WriteRaisesFrom(_, _, _)
WriteRaisesFrom(attributes, parameters, i) ==
    IF i > Len(parameters) THEN FALSE
    ELSE LET param == parameters[i] IN
         IF /\ param.name \in DOMAIN attributes
            /\ ValueField(attributes[param.name], param.value) # "none"
            /\ attributes[param.name].rejects
         THEN TRUE
         ELSE WriteRaisesFrom(attributes, parameters, i + 1)

\* variant: an exception while a parameter is applied leaves the creation
NewXObjectUnguarded(prop_data) ==
    IF prop_data.property_type \notin KnownTypes
    THEN [attributes |-> <<>>, failed |-> TRUE]
    ELSE IF WriteRaisesFrom(XObjectAttributes(prop_data.property_type),
                            prop_data.parameters, 1)
    THEN [attributes |-> <<>>, failed |-> TRUE]
    ELSE [attributes |->
              ApplyParametersFrom(XObjectAttributes(prop_data.property_type),
                                  prop_data.parameters, 1),
          failed |-> FALSE]

\* the try block that builds the XObject of a new property: failed when
\* doc.metaData<Kind>Property raises for the type identifier
NewXObject(prop_data) ==
    IF prop_data.property_type \notin KnownTypes
    THEN [attributes |-> <<>>, failed |-> TRUE]
    ELSE [attributes |->
              ApplyParametersFrom(XObjectAttributes(prop_data.property_type),
                                  prop_data.parameters, 1),
          failed |-> FALSE]

\* variant: the number of properties instead of the largest id
NumberOfKeys(doc_props) == Len(doc_props)

\* doc.<kind>Properties.getlastkey(0): the largest id, 0 for an empty map
getlastkey(doc_props) ==
    IF doc_props = <<>> THEN 0 ELSE doc_props[Len(doc_props)].id

\* variant: the lookup compares the type identifier with the name
LookupByType(doc_props, prop_name) ==
    IF \E i \in 1..Len(doc_props) : doc_props[i].ptype = prop_name
    THEN doc_props[CHOOSE i \in 1..Len(doc_props) :
                      doc_props[i].ptype = prop_name].id
    ELSE 0

\* id of the first property named prop_name in items() order, 0 when absent
LookupByName(doc_props, prop_name) ==
    IF \E i \in 1..Len(doc_props) : doc_props[i].name = prop_name
    THEN doc_props[CHOOSE i \in 1..Len(doc_props) :
                      /\ doc_props[i].name = prop_name
                      /\ \A j \in 1..(i - 1) : doc_props[j].name # prop_name].id
    ELSE 0

\* variant: no lookup of an existing property before the creation
GetOrCreateAlwaysNew(doc_props, prop_data) ==
    LET xobj == NewXObject(prop_data) IN
    IF xobj.failed
    THEN [props |-> doc_props, pp |-> 0]
    ELSE LET new_pp == [id |-> getlastkey(doc_props) + 1,
                        name |-> prop_data.property_name,
                        ptype |-> prop_data.property_type,
                        params |-> xobj.attributes]
         IN [props |-> Append(doc_props, new_pp), pp |-> new_pp.id]

\* The body shared by create_or_get_physical_property and
\* create_or_get_element_property, on the property map of their own kind.
\* Result: the map afterwards and the id of the returned property (0 for the
\* returned None).
GetOrCreate(doc_props, prop_data) ==
    LET existing == LookupByName(doc_props, prop_data.property_name) IN
    IF existing # 0 THEN [props |-> doc_props, pp |-> existing]
    ELSE LET xobj == NewXObject(prop_data) IN
         IF xobj.failed
         THEN [props |-> doc_props, pp |-> 0]
         ELSE LET new_pp == [id |-> getlastkey(doc_props) + 1,
                             name |-> prop_data.property_name,
                             ptype |-> prop_data.property_type,
                             params |-> xobj.attributes]
              IN [props |-> Append(doc_props, new_pp), pp |-> new_pp.id]

\* variant: an existing property is looked up, none is created
LookupPhysicalProperty(doc_props, prop_data) ==
    [props |-> doc_props,
     pp |-> LookupByName(doc_props, prop_data.property_name)]

create_or_get_physical_property(doc_props, prop_data) ==
    GetOrCreate(doc_props, prop_data)

create_or_get_element_property(doc_props, prop_data) ==
    GetOrCreate(doc_props, prop_data)

\* --------------------------------------------------------------------------
\* Input pools
\* --------------------------------------------------------------------------
PA == Pt(0, 0, 0)

PA1 == Pt(1, 0, 0)

PB == Pt(4, 0, 0)

PC == Pt(0, 4, 0)

PD == Pt(0, 0, 4)

Kinds == <<"vertices", "edges", "faces", "solids">>

KindSet == {Kinds[i] : i \in 1..Len(Kinds)}

Classes == <<"physical", "element">>

\* position of a record in the replay order (class first, then kind)
Slot(r) ==
    LET c == CHOOSE i \in 1..Len(Classes) : Classes[i] = r.cls
        k == CHOOSE i \in 1..Len(Kinds) : Kinds[i] = r.kind
    IN (c - 1) * Len(Kinds) + k

MkShape(verts, subs) ==
    [verts |-> verts, edges |-> subs, faces |-> subs, solids |-> subs]

\* Live shapes: two bodies sharing a vertex; one body; one body moved away;
\* one body with coincident vertices; one body with a vertex whose position
\* the kernel does not give; a shape without vertices.
ShapeTwo == MkShape(<<PA, PB, PC>>, << <<0, 1>>, <<1, 2>> >>)

ShapeOne == MkShape(<<PA, PB>>, << <<0, 1>> >>)

ShapeMoved == MkShape(<<PA, PD>>, << <<0, 1>> >>)

ShapeDegenerate == MkShape(<<PB, PB>>, << <<0, 1>> >>)

ShapeBroken == MkShape(<<PA, NullPt>>, << <<0, 1>> >>)

LiveShapes == {ShapeTwo, ShapeOne, ShapeMoved, ShapeDegenerate, ShapeBroken}

NumSub(shape, kind) ==
    IF kind = "vertices" THEN Len(shape.verts) ELSE Len(shape[kind])

EmptyTables(shape) ==
    [kind \in KindSet |-> [i \in 1..NumSub(shape, kind) |-> 0]]

\* A freshly imported geometry: no property assigned anywhere
MkLive(name, shape) ==
    [name |-> name, shape |-> shape,
     physical |-> EmptyTables(shape), element |-> EmptyTables(shape)]

Wall == <<"W", "a", "l", "l">>

WallA == Wall \o <<"_", "A">>

Beam == <<"B", "e", "a", "m">>

\* names long enough for 50 + len(json_name) to reach the exact-match score
Long50 == [i \in 1..50 |-> "x"]

Long51 == [i \in 1..51 |-> "x"]

NamePool == {Wall, WallA, Beam, Long50, Long51}

\* What the capture recorded as corner points, by variant: all positions
\* present; the same with the imported body being the second recorded solid;
\* some positions absent (null); some coordinate lists empty.
RecordedCoords(variant, kind, sub_id) ==
    IF variant = "clean"
    THEN IF kind = "vertices" THEN <<PA>>
         ELSE IF sub_id = 0 THEN <<PA, PB>> ELSE <<PB, PC>>
    ELSE IF variant = "second"
    THEN IF kind = "vertices" THEN <<PA>>
         ELSE IF kind = "solids" /\ sub_id = 0 THEN <<PB, PC>>
         ELSE <<PA, PB>>
    ELSE IF variant = "nulls"
    THEN IF kind = "vertices" THEN <<NullPt>>
         ELSE IF sub_id = 0 THEN <<NullPt, PB>> ELSE <<PB, PC>>
    ELSE IF kind = "vertices" THEN <<>>
         ELSE IF sub_id = 0 THEN <<>> ELSE <<PA, PB>>

Variants == {"clean", "second", "nulls", "missing"}

PropDefs == {<<"Steel", "Elastic">>, <<"Conc", "Unknown">>}

Param(name, t, v) == [name |-> name, value |-> [t |-> t, v |-> v]]

\* prop_data['parameters'] as the capture recorded them for a property of
\* the given type, in the order of the dict: a number for a real attribute,
\* a parameter the XObject does not have, the None that the capture writes
\* for a value it could not read, a number for an attribute whose write
\* raises, a string for a string attribute; one parameter for the other
\* type; none for 'Unknown'
RecordedParameters(prop_type) ==
    IF prop_type = "Elastic"
    THEN <<Param("E", "number", 210), Param("ghost", "number", 1),
           Param("nu", "none", 0), Param("rho", "number", 7),
           Param("label", "string", 5)>>
    ELSE IF prop_type = "Other" THEN <<Param("E", "string", 9)>>
    ELSE <<>>

MkRec(cls, kind, sub_id, def, coords) ==
    [cls |-> cls, kind |-> kind, sub_id |-> sub_id,
     property_name |-> def[1], property_type |-> def[2],
     parameters |-> RecordedParameters(def[2]), coords |-> coords]

\* one recorded subshape of each kind, and a second solid; the second solid
\* is a physical one, and the property that cannot be constructed is a
\* physical one of a vertex or of a face
RecPool(variant) ==
    {r \in {MkRec(cls, kind, sub_id, def,
                  RecordedCoords(variant, kind, sub_id)) :
               cls \in {"physical", "element"}, kind \in KindSet,
               sub_id \in {0, 1}, def \in PropDefs} :
        /\ r.sub_id # 0 => (r.kind = "solids" /\ r.cls = "physical")
        /\ r.property_type \notin KnownTypes =>
              (r.cls = "physical" /\ r.kind \in {"vertices", "faces"})}

SeqsUpTo(S, n) == UNION {[1..m -> S] : m \in 0..n}

\* record lists in replay order
Ordered(recs) ==
    \A i \in 1..(Len(recs) - 1) : Slot(recs[i]) <= Slot(recs[i + 1])

MaxRecs == 2

RecLists(variant) == {recs \in SeqsUpTo(RecPool(variant), MaxRecs) : Ordered(recs)}

ShapeTypes == {"SOLID", "EDGE", "FACE", "COMPOUND"}

MkSnap(name, shape_type, records) ==
    [name |-> name, shape_type |-> shape_type, records |-> records]

\* --------------------------------------------------------------------------
\* State
\* --------------------------------------------------------------------------
VARIABLES
    geometries_data,        \* json_data['geometries'], read-only
    geometries,             \* doc.geometries in items() order
    physicalProperties,     \* doc.physicalProperties in id order
    elementProperties,      \* doc.elementProperties in id order
    created_physical_props, \* run_copy_mode: property name -> property id
    created_element_props,
    assigned_count,
    failed_count,
    phase,                  \* where the run stands
    run,                    \* number of the current execution of the script
    mcur,                   \* materialization: <<geometry, record>> position
    li,                     \* assignment: position in doc.geometries
    geom_data,              \* position of the correlated snapshot geometry
    best_match_score,
    matched_subgeom_index,
    ri,                     \* position of the next record to replay
    interactions_data,      \* json_data['interactions'], read-only
    interactions,           \* doc.interactions in id order
    interactions_created,   \* created_count of recreate_interactions
    interactions_failed,    \* failed_count of recreate_interactions
    ii,                     \* interactions: position in interactions_data
    ai,                     \* position of the next attachment, 0 before the
                            \* interaction object is found or created
    interaction,            \* position in doc.interactions of the object
    trace,                  \* history: what the run did, in order
    doc0,                   \* history: the property maps before the first run
    after1,                 \* history: the document after the first run
    interactions1,          \* history: doc.interactions after the first run
    call,                   \* arguments of a stand-alone function application
    result                  \* and its result

vars == <<geometries_data, geometries, physicalProperties, elementProperties,
          created_physical_props, created_element_props, assigned_count,
          failed_count, phase, run, mcur, li, geom_data, best_match_score,
          matched_subgeom_index, ri, interactions_data, interactions,
          interactions_created, interactions_failed, ii, ai, interaction,
          trace, doc0, after1, interactions1, call, result>>

\* the state of recreate_interactions
intVars == <<interactions_data, interactions, interactions_created,
             interactions_failed, ii, ai, interaction, interactions1>>

docVars == <<geometries, physicalProperties, elementProperties>>

runVars == <<geometries_data, geometries, physicalProperties,
             elementProperties, created_physical_props,
             created_element_props, assigned_count, failed_count, phase, run,
             mcur, li, geom_data, best_match_score, matched_subgeom_index, ri,
             trace, doc0, after1, intVars>>

NoCall == [op |-> "none"]

Document == [geometries |-> geometries,
             physicalProperties |-> physicalProperties,
             elementProperties |-> elementProperties]

Ev(ev, live, snap, rec, id, pp) ==
    [ev |-> ev, run |-> run, live |-> live, snap |-> snap, rec |-> rec,
     id |-> id, pp |-> pp]

\* first position at or after <<g, r>> that holds a record, in the order of
\* the loops of run_copy_mode; <<Len + 1, 1>> when there is none
RECURSIVE NextRecordPos(_, _, _)
NextRecordPos(gds, g, r) ==
    IF g > Len(gds) THEN <<Len(gds) + 1, 1>>
    ELSE IF r <= Len(gds[g].records) THEN <<g, r>>
    ELSE NextRecordPos(gds, g + 1, 1)

\* --------------------------------------------------------------------------
\* Initial states: the snapshot document and the live document after import
\* --------------------------------------------------------------------------
PreProp(id, name, ptype) ==
    [id |-> id, name |-> name, ptype |-> ptype,
     params |-> XObjectAttributes(ptype)]

\* property maps the live document may hold before the run
PrePhysical ==
    {<<>>, <<PreProp(1, "Steel", "Other")>>, <<PreProp(3, "Conc", "Other")>>,
     <<PreProp(1, "Steel", "Other"), PreProp(2, "Steel", "Elastic")>>}

PreElement == {<<>>, <<PreProp(2, "Steel", "Other")>>}

FaceRec(cls, def) == MkRec(cls, "faces", 0, def, <<PA, PB>>)

InitRunWith(gds, lives, pre_ph, pre_el, ints) ==
    /\ geometries_data = gds
    /\ geometries = lives
    /\ physicalProperties = pre_ph
    /\ elementProperties = pre_el
    /\ created_physical_props = <<>>
    /\ created_element_props = <<>>
    /\ assigned_count = 0
    /\ failed_count = 0
    /\ phase = "materialize"
    /\ run = 1
    /\ mcur = NextRecordPos(gds, 1, 1)
    /\ li = 1
    /\ geom_data = 0
    /\ best_match_score = 0
    /\ matched_subgeom_index = NotFound
    /\ ri = 1
    /\ trace = <<>>
    /\ doc0 = [physicalProperties |-> pre_ph, elementProperties |-> pre_el]
    /\ after1 = [geometries |-> <<>>, physicalProperties |-> <<>>,
                 elementProperties |-> <<>>]
    /\ interactions_data = ints
    /\ interactions = <<>>
    /\ interactions_created = 0
    /\ interactions_failed = 0
    /\ ii = 1
    /\ ai = 0
    /\ interaction = 0
    /\ interactions1 = <<>>

\* a snapshot document without interactions
InitRun(gds, lives, pre_ph, pre_el) ==
    InitRunWith(gds, lives, pre_ph, pre_el, <<>>)

\* the recorded variants each live shape is run against, with the shape
\* types of the snapshot geometry
VariantShapes ==
    {<<"clean", shape, shape_type>> :
        shape \in LiveShapes, shape_type \in ShapeTypes}
    \cup {<<variant, ShapeOne, shape_type>> :
             variant \in Variants \ {"clean"},
             shape_type \in {"SOLID", "COMPOUND"}}

\* one geometry on each side, equal names: the recorded assignments, the
\* snapshot's shape type and the live shape vary
InitRecords ==
    \E vs \in VariantShapes :
      \E recs \in RecLists(vs[1]) :
        InitRun(<<MkSnap(Wall, vs[3], recs)>>, <<MkLive(Wall, vs[2])>>,
                <<>>, <<>>)

\* the names on both sides vary, MaxNames geometries in all; every snapshot
\* geometry has one face record
InitNames ==
    \E snames \in SeqsUpTo(NamePool, MaxNames),
       lnames \in SeqsUpTo(NamePool, MaxNames) :
        /\ snames # <<>>
        /\ Len(snames) + Len(lnames) <= MaxNames
        /\ InitRun([i \in 1..Len(snames) |->
                       MkSnap(snames[i], "COMPOUND",
                              <<FaceRec("physical", <<"Steel", "Elastic">>)>>)],
                   [i \in 1..Len(lnames) |-> MkLive(lnames[i], ShapeOne)],
                   <<>>, <<>>)

\* the property maps of the live document before the run vary
InitProps ==
    \E pre_ph \in PrePhysical, pre_el \in PreElement :
      \E recs \in {rs \in SeqsUpTo({FaceRec(cls, def) :
                                      cls \in {"physical", "element"},
                                      def \in PropDefs
                                           \cup {<<"Steel", "Other">>,
                                                 <<"Glass", "Elastic">>}},
                                   MaxRecs) : Ordered(rs)} :
        InitRun(<<MkSnap(Wall, "FACE", recs)>>, <<MkLive(Wall, ShapeOne)>>,
                pre_ph, pre_el)

\* what the capture recorded of one master or slave item
MkAtt(geometry_name, subshape_type, vertex_coordinates) ==
    [geometry_name |-> geometry_name, subshape_type |-> subshape_type,
     vertex_coordinates |-> vertex_coordinates]

\* attachments: a vertex of the first body, a vertex only the moved body has,
\* a face, a solid of a geometry that was not imported, an item of the
\* second body whose subshape type has no name
AttPool ==
    {MkAtt(Wall, "VERTEX", <<PB>>), MkAtt(Wall, "VERTEX", <<PD>>),
     MkAtt(Wall, "FACE", <<PA, PB>>), MkAtt(Beam, "SOLID", <<PA, PB>>),
     MkAtt(WallA, "UNKNOWN", <<PA, PD>>)}

\* masters and slaves of one interaction record, MaxAtts items in all
AttLists ==
    {ms \in SeqsUpTo(AttPool, MaxAtts) \X SeqsUpTo(AttPool, MaxAtts) :
        Len(ms[1]) + Len(ms[2]) <= MaxAtts}

\* the recorded type string and property names of the interaction
IntHeads ==
    {[type |-> <<>>, physical_property |-> "", element_property |-> ""],
     [type |-> <<"MpcInteractionType", "NodeToElement">>,
      physical_property |-> "Steel", element_property |-> "Steel"]}

MkInt(name, head, masters, slaves) ==
    [name |-> name, type |-> head.type,
     physical_property |-> head.physical_property,
     element_property |-> head.element_property,
     masters |-> masters, slaves |-> slaves]

\* a geometry imported as two bodies "Wall" and "Wall_A", and one recorded
\* interaction whose items vary
InitInteractions ==
    \E shape1 \in {ShapeOne, ShapeBroken}, shape2 \in {ShapeOne, ShapeMoved},
       head \in IntHeads, ms \in AttLists :
        InitRunWith(<<MkSnap(Wall, "COMPOUND",
                             <<FaceRec("physical", <<"Steel", "Elastic">>)>>)>>,
                    <<MkLive(Wall, shape1), MkLive(WallA, shape2)>>,
                    <<>>, <<>>,
                    <<MkInt("Link", head, ms[1], ms[2])>>)

\* records of a solid snapshot, one of them with a corner point the capture
\* could not read
NullCornerPool ==
    {MkRec("physical", "faces", 0, <<"Steel", "Elastic">>, <<PA, PB>>),
     MkRec("physical", "solids", 0, <<"Steel", "Elastic">>, <<NullPt, PB>>),
     MkRec("element", "solids", 0, <<"Steel", "Elastic">>, <<PB, PC>>)}

\* a solid snapshot imported as two bodies "Wall" and "Wall_A" of different
\* numbers of vertices
InitBodies ==
    \E recs \in {rs \in SeqsUpTo(NullCornerPool, MaxRecs) : Ordered(rs)},
       shape2 \in {ShapeOne, ShapeMoved} :
        InitRun(<<MkSnap(Wall, "SOLID", recs)>>,
                <<MkLive(Wall, ShapeTwo), MkLive(WallA, shape2)>>,
                <<>>, <<>>)

Init ==
    /\ \/ InitRecords
       \/ InitNames
       \/ InitProps
       \/ InitInteractions
       \/ InitBodies
    /\ call = NoCall
    /\ result = NotFound

\* --------------------------------------------------------------------------
\* run_copy_mode, [FASE 3]: property materialization
\* --------------------------------------------------------------------------
MaterializeEvent(r) ==
    Ev(IF r.pp = 0 THEN "create_failed"
       ELSE IF r.props = physicalProperties \/ r.props = elementProperties
            THEN "reuse" ELSE "create",
       0, mcur[1], mcur[2], 0, r.pp)

\* one pass of the loop `for prop_data in all_physical`
MaterializePhysical ==
    /\ phase = "materialize"
    /\ mcur[1] <= Len(geometries_data)
    /\ LET prop_data == geometries_data[mcur[1]].records[mcur[2]]
           prop_name == prop_data.property_name
       IN /\ prop_data.cls = "physical"
          /\ IF prop_name \in DOMAIN created_physical_props
             THEN UNCHANGED <<physicalProperties, created_physical_props,
                              trace>>
             ELSE LET r == create_or_get_physical_property(physicalProperties,
                                                           prop_data)
                  IN /\ physicalProperties' = r.props
                     /\ created_physical_props' =
                           IF r.pp # 0
                           THEN created_physical_props @@ (prop_name :> r.pp)
                           ELSE created_physical_props
                     /\ trace' = Append(trace, MaterializeEvent(r))
    /\ mcur' = NextRecordPos(geometries_data, mcur[1], mcur[2] + 1)
    /\ UNCHANGED <<geometries_data, geometries, elementProperties,
                   created_element_props, assigned_count, failed_count, phase,
                   run, li, geom_data, best_match_score,
                   matched_subgeom_index, ri, doc0, after1, call, result>>
    /\ UNCHANGED intVars

\* one pass of the loop `for prop_data in all_element`
MaterializeElement ==
    /\ phase = "materialize"
    /\ mcur[1] <= Len(geometries_data)
    /\ LET prop_data == geometries_data[mcur[1]].records[mcur[2]]
           prop_name == prop_data.property_name
       IN /\ prop_data.cls = "element"
          /\ IF prop_name \in DOMAIN created_element_props
             THEN UNCHANGED <<elementProperties, created_element_props,
                              trace>>
             ELSE LET r == create_or_get_element_property(elementProperties,
                                                          prop_data)
                  IN /\ elementProperties' = r.props
                     /\ created_element_props' =
                           IF r.pp # 0
                           THEN created_element_props @@ (prop_name :> r.pp)
                           ELSE created_element_props
                     /\ trace' = Append(trace, MaterializeEvent(r))
    /\ mcur' = NextRecordPos(geometries_data, mcur[1], mcur[2] + 1)
    /\ UNCHANGED <<geometries_data, geometries, physicalProperties,
                   created_physical_props, assigned_count, failed_count, phase,
                   run, li, geom_data, best_match_score,
                   matched_subgeom_index, ri, doc0, after1, call, result>>
    /\ UNCHANGED intVars

\* --------------------------------------------------------------------------
\* assign_properties_to_geometries
\* --------------------------------------------------------------------------

\* the call: the counters start at 0 and the loop over doc.geometries begins
BeginAssign ==
    /\ phase = "materialize"
    /\ mcur[1] > Len(geometries_data)
    /\ phase' = "correlate"
    /\ assigned_count' = 0
    /\ failed_count' = 0
    /\ li' = 1
    /\ UNCHANGED <<geometries_data, geometries, physicalProperties,
                   elementProperties, created_physical_props,
                   created_element_props, run, mcur, geom_data,
                   best_match_score, matched_subgeom_index, ri, trace, doc0,
                   after1, call, result>>
    /\ UNCHANGED intVars

SnapNames == [i \in 1..Len(geometries_data) |-> geometries_data[i].name]

\* the head of the loop body: score every snapshot geometry against the live
\* geometry, `continue` when none scores above 0
CorrelateGeometry ==
    /\ phase = "correlate"
    /\ li <= Len(geometries)
    /\ LET c == Correlate(SnapNames, geometries[li].name) IN
       IF c.gi = 0 \/ c.score = 0
       THEN /\ li' = li + 1
            /\ trace' = Append(trace, Ev("skip", li, 0, 0, 0, 0))
            /\ UNCHANGED <<phase, geom_data, best_match_score>>
       ELSE /\ geom_data' = c.gi
            /\ best_match_score' = c.score
            /\ phase' = "disambiguate"
            /\ trace' = Append(trace, Ev("match", li, c.gi, 0, 0, 0))
            /\ UNCHANGED li
    /\ UNCHANGED <<geometries_data, geometries, physicalProperties,
                   elementProperties, created_physical_props,
                   created_element_props, assigned_count, failed_count, run,
                   mcur, matched_subgeom_index, ri, doc0, after1, call,
                   result>>
    /\ UNCHANGED intVars

\* variant: a snapshot of any other shape type is disambiguated by its solids
MatchedSubgeomIndexAnyType(shape, gd) ==
    IF gd.shape_type = "EDGE"
    THEN find_matching_subgeometry_index(shape, gd, "edges")
    ELSE IF gd.shape_type = "FACE"
    THEN find_matching_subgeometry_index(shape, gd, "faces")
    ELSE find_matching_subgeometry_index(shape, gd, "solids")

\* matched_subgeom_index as computed from the snapshot's shape_type
MatchedSubgeomIndex(shape, gd) ==
    IF gd.shape_type \in {"SOLID", "COMPSOLID"}
    THEN find_matching_subgeometry_index(shape, gd, "solids")
    ELSE IF gd.shape_type = "EDGE"
    THEN find_matching_subgeometry_index(shape, gd, "edges")
    ELSE IF gd.shape_type = "FACE"
    THEN find_matching_subgeometry_index(shape, gd, "faces")
    ELSE NotFound

\* An exception of find_matching_subgeometry_index is caught nowhere: it
\* leaves assign_properties_to_geometries, run_copy_mode and the script.
DisambiguateGeometry ==
    /\ phase = "disambiguate"
    /\ LET m == MatchedSubgeomIndex(geometries[li].shape,
                                    geometries_data[geom_data]) IN
       IF m.st = "raise"
       THEN /\ phase' = "aborted"
            /\ trace' = Append(trace, Ev("abort", li, geom_data, 0, 0, 0))
            /\ after1' = IF run = 1 THEN Document ELSE after1
            /\ UNCHANGED <<matched_subgeom_index, ri>>
       ELSE /\ matched_subgeom_index' = m
            /\ ri' = 1
            /\ phase' = "replay"
            /\ trace' = Append(trace, Ev(IF m.st = "found" THEN "group"
                                         ELSE "all_groups",
                                         li, geom_data, 0, m.id, 0))
            /\ UNCHANGED after1
    /\ UNCHANGED <<geometries_data, geometries, physicalProperties,
                   elementProperties, created_physical_props,
                   created_element_props, assigned_count, failed_count, run,
                   mcur, li, geom_data, best_match_score, doc0, call, result>>
    /\ UNCHANGED intVars

\* the locator call made for a record of the given kind
Locate(shape, prop_data) ==
    IF prop_data.kind = "vertices"
    THEN find_vertex_by_coordinates(shape, prop_data.coords[1])
    ELSE IF prop_data.kind = "edges"
    THEN find_edge_by_vertices(shape, prop_data.coords)
    ELSE IF prop_data.kind = "faces"
    THEN find_face_by_vertices(shape, prop_data.coords)
    ELSE find_solid_by_vertices(shape, prop_data.coords)

\* variant: without the test `is not None`, an unresolved index excludes the
\* records of every subshape but the one it happens to compare equal to
FilteredOutWithoutNoneTest(prop_data, matched) ==
    /\ prop_data.kind # "vertices"
    /\ prop_data.sub_id # matched.id

\* `matched_subgeom_index is not None and prop_data.get('<kind>_id') !=
\* matched_subgeom_index`, the test at the head of the edge, face and solid
\* loops (the vertex loops have none)
FilteredOut(prop_data, matched) ==
    /\ prop_data.kind # "vertices"
    /\ matched.st = "found"
    /\ prop_data.sub_id # matched.id

\* variant: the records of both classes read the map of the physical
\* properties
CreatedPhysicalProps(cls) == created_physical_props

\* the property map the record's class reads
CreatedProps(cls) ==
    IF cls = "physical" THEN created_physical_props ELSE created_element_props

\* What one pass of one of the eight replay loops does with its record:
\* outcome and located index.
ReplayOutcome(shape, prop_data, matched) ==
    IF FilteredOut(prop_data, matched) THEN [ev |-> "filtered", id |-> 0]
    ELSE IF prop_data.coords = <<>> THEN [ev |-> "no_coords", id |-> 0]
    ELSE LET r == Locate(shape, prop_data) IN
         IF r.st = "found"
         THEN IF prop_data.property_name \in DOMAIN CreatedProps(prop_data.cls)
              THEN [ev |-> "write", id |-> r.id]
              ELSE [ev |-> "not_created", id |-> r.id]
         ELSE IF r.st = "none" THEN [ev |-> "not_found", id |-> 0]
         ELSE [ev |-> "error", id |-> 0]

\* one pass of one of the eight loops over the records of the correlated
\* snapshot geometry
ReplayRecord ==
    /\ phase = "replay"
    /\ ri <= Len(geometries_data[geom_data].records)
    /\ LET prop_data == geometries_data[geom_data].records[ri]
           o == ReplayOutcome(geometries[li].shape, prop_data,
                              matched_subgeom_index)
           pp == IF o.ev = "write"
                 THEN CreatedProps(prop_data.cls)[prop_data.property_name]
                 ELSE 0
       IN /\ geometries' =
                IF o.ev = "write"
                THEN [geometries EXCEPT
                        ![li][prop_data.cls][prop_data.kind][o.id + 1] = pp]
                ELSE geometries
          /\ assigned_count' =
                IF o.ev = "write" THEN assigned_count + 1 ELSE assigned_count
          /\ failed_count' =
                IF o.ev \in {"not_found", "error"} THEN failed_count + 1
                ELSE failed_count
          /\ trace' = Append(trace, Ev(o.ev, li, geom_data, ri, o.id, pp))
    /\ ri' = ri + 1
    /\ UNCHANGED <<geometries_data, physicalProperties, elementProperties,
                   created_physical_props, created_element_props, phase, run,
                   mcur, li, geom_data, best_match_score,
                   matched_subgeom_index, doc0, after1, call, result>>
    /\ UNCHANGED intVars

\* doc.commitChanges() at the end of the loop body, then the next geometry
CommitGeometry ==
    /\ phase = "replay"
    /\ ri > Len(geometries_data[geom_data].records)
    /\ trace' = Append(trace, Ev("commit", li, geom_data, 0, 0, 0))
    /\ li' = li + 1
    /\ phase' = "correlate"
    /\ UNCHANGED <<geometries_data, geometries, physicalProperties,
                   elementProperties, created_physical_props,
                   created_element_props, assigned_count, failed_count, run,
                   mcur, geom_data, best_match_score, matched_subgeom_index,
                   ri, doc0, after1, call, result>>
    /\ UNCHANGED intVars

\* return assigned_count, failed_count; run_copy_mode goes on with the call
\* of recreate_interactions, whose counters start at 0
ReturnCounts ==
    /\ phase = "correlate"
    /\ li > Len(geometries)
    /\ phase' = "interactions"
    /\ trace' = Append(trace, Ev("return", 0, 0, 0, assigned_count,
                                 failed_count))
    /\ after1' = IF run = 1 THEN Document ELSE after1
    /\ interactions_created' = 0
    /\ interactions_failed' = 0
    /\ ii' = 1
    /\ ai' = 0
    /\ interaction' = 0
    /\ UNCHANGED <<geometries_data, geometries, physicalProperties,
                   elementProperties, created_physical_props,
                   created_element_props, assigned_count, failed_count, run,
                   mcur, li, geom_data, best_match_score,
                   matched_subgeom_index, ri, doc0, call, result>>
    /\ UNCHANGED <<interactions_data, interactions, interactions1>>

\* --------------------------------------------------------------------------
\* recreate_interactions
\* --------------------------------------------------------------------------

\* get_mpc_subshape_type_from_name: the kind of subshape, "none" for the None
\* that type_map.get gives for any other name
get_mpc_subshape_type_from_name(type_name) ==
    IF type_name = "VERTEX" THEN "vertices"
    ELSE IF type_name = "EDGE" THEN "edges"
    ELSE IF type_name = "FACE" THEN "faces"
    ELSE IF type_name = "SOLID" THEN "solids"
    ELSE "none"

\* members of MpcInteractionType
InteractionTypes == {"NodeToNode", "NodeToElement"}

\* type_string is the recorded string split at its dots (<<>> for None or
\* ''): the last part names the member, NodeToNode when it names none
get_interaction_type_from_string(type_string) ==
    IF type_string = <<>> THEN "NodeToNode"
    ELSE LET type_name == type_string[Len(type_string)] IN
         IF type_name \in InteractionTypes THEN type_name ELSE "NodeToNode"

find_subshape_by_coordinates(shape, target_coords, subshape_type_name) ==
    LET subshape_type == get_mpc_subshape_type_from_name(subshape_type_name)
    IN IF subshape_type = "none" THEN NotFound
       ELSE IF subshape_type = "vertices"
       THEN find_vertex_by_coordinates(shape,
                IF target_coords # <<>> THEN target_coords[1] ELSE NonePt)
       ELSE IF subshape_type = "edges"
       THEN find_edge_by_vertices(shape, target_coords)
       ELSE IF subshape_type = "faces"
       THEN find_face_by_vertices(shape, target_coords)
       ELSE find_solid_by_vertices(shape, target_coords)

\* candidate_geoms: the positions in doc.geometries, in items() order, of
\* the geometries whose name is geometry_name or contains it
CandidateGeoms(geoms, geometry_name) ==
    SelectSeq([l \in 1..Len(geoms) |-> l],
              LAMBDA l : \/ geoms[l].name = geometry_name
                         \/ IsSubstring(geometry_name, geoms[l].name))

NoTarget == [st |-> "none", geom |-> 0, id |-> 0]

\* the loop `for geom in candidate_geoms`, from position i: the first
\* candidate in which the locator finds a subshape; an exception of the
\* locator leaves the loop
RECURSIVE FindTargetFrom(_, _, _, _)
FindTargetFrom(geoms, candidate_geoms, att, i) ==
    IF i > Len(candidate_geoms) THEN NoTarget
    ELSE LET found_id == find_subshape_by_coordinates(
                             geoms[candidate_geoms[i]].shape,
                             att.vertex_coordinates, att.subshape_type)
         IN IF found_id.st = "raise" THEN [NoTarget EXCEPT !.st = "raise"]
            ELSE IF found_id.st = "found"
            THEN [st |-> "found", geom |-> candidate_geoms[i],
                  id |-> found_id.id]
            ELSE FindTargetFrom(geoms, candidate_geoms, att, i + 1)

\* what the body of the try block of one master or slave attachment does:
\* outcome, target geometry and subshape index
AttachmentOutcome(geoms, att) ==
    LET candidate_geoms == CandidateGeoms(geoms, att.geometry_name) IN
    IF candidate_geoms = <<>> THEN [NoTarget EXCEPT !.st = "att_no_geometry"]
    ELSE LET t == FindTargetFrom(geoms, candidate_geoms, att, 1) IN
         IF t.st = "raise" THEN [NoTarget EXCEPT !.st = "att_error"]
         ELSE IF t.st = "none" THEN [NoTarget EXCEPT !.st = "att_not_found"]
         ELSE [t EXCEPT !.st = "att_added"]

\* MpcInteractionItem(target_geom, subshape_type, subshape_id)
MpcInteractionItem(target_geom, subshape_type, subshape_id) ==
    [geometry |-> target_geom, subshapeType |-> subshape_type,
     subshapeId |-> subshape_id]

\* position in doc.interactions of the first interaction of that name, 0
\* when there is none
ExistingInteraction(ints, name) ==
    IF \E i \in DOMAIN ints : ints[i].name = name
    THEN CHOOSE i \in DOMAIN ints :
            /\ ints[i].name = name
            /\ \A j \in 1..(i - 1) : ints[j].name # name
    ELSE 0

\* MpcInteraction(interaction_id, name) with its type and, when the recorded
\* property names are in the created maps, its properties
NewInteraction(int_data) ==
    [id |-> getlastkey(interactions) + 1,
     name |-> int_data.name,
     type |-> get_interaction_type_from_string(int_data.type),
     physicalProperty |->
         IF /\ int_data.physical_property # ""
            /\ int_data.physical_property \in DOMAIN created_physical_props
         THEN created_physical_props[int_data.physical_property] ELSE 0,
     elementProperty |->
         IF /\ int_data.element_property # ""
            /\ int_data.element_property \in DOMAIN created_element_props
         THEN created_element_props[int_data.element_property] ELSE 0,
     masters |-> <<>>, slaves |-> <<>>]

\* the head of the loop body: use the interaction of that name or create one
FindOrCreateInteraction ==
    /\ phase = "interactions"
    /\ ii <= Len(interactions_data)
    /\ ai = 0
    /\ LET int_data == interactions_data[ii]
           existing == ExistingInteraction(interactions, int_data.name)
       IN IF existing # 0
          THEN /\ interaction' = existing
               /\ trace' = Append(trace, Ev("int_reuse", 0, ii, 0,
                                            interactions[existing].id, 0))
               /\ UNCHANGED interactions
          ELSE /\ interactions' = Append(interactions, NewInteraction(int_data))
               /\ interaction' = Len(interactions) + 1
               /\ trace' = Append(trace, Ev("int_create", 0, ii, 0,
                                            getlastkey(interactions) + 1, 0))
    /\ ai' = 1
    /\ UNCHANGED <<geometries_data, geometries, physicalProperties,
                   elementProperties, created_physical_props,
                   created_element_props, assigned_count, failed_count, phase,
                   run, mcur, li, geom_data, best_match_score,
                   matched_subgeom_index, ri, doc0, after1, call, result>>
    /\ UNCHANGED <<interactions_data, interactions_created,
                   interactions_failed, ii, interactions1>>

\* variant: the except clause of the attachment does not count
CountAttachmentUnlessError(o, failed) ==
    IF o.st \in {"att_added", "att_error"} THEN failed ELSE failed + 1

\* failed_count after one attachment: `failed_count += 1` before each
\* `continue` and in the except clause
CountAttachment(o, failed) ==
    IF o.st = "att_added" THEN failed ELSE failed + 1

\* one pass of the loop over the masters or over the slaves of the record
Attach(side, att) ==
    LET o == AttachmentOutcome(geometries, att) IN
    /\ interactions' =
          IF o.st = "att_added"
          THEN [interactions EXCEPT ![interaction][side] =
                   Append(@, MpcInteractionItem(o.geom,
                       get_mpc_subshape_type_from_name(att.subshape_type),
                       o.id))]
          ELSE interactions
    /\ interactions_failed' = CountAttachment(o, interactions_failed)
    /\ trace' = Append(trace, Ev(o.st, o.geom, ii, ai, o.id, 0))
    /\ ai' = ai + 1
    /\ UNCHANGED <<geometries_data, geometries, physicalProperties,
                   elementProperties, created_physical_props,
                   created_element_props, assigned_count, failed_count, phase,
                   run, mcur, li, geom_data, best_match_score,
                   matched_subgeom_index, ri, doc0, after1, call, result>>
    /\ UNCHANGED <<interactions_data, interactions_created, ii, interaction,
                   interactions1>>

RecreateMaster ==
    /\ phase = "interactions"
    /\ ii <= Len(interactions_data)
    /\ ai >= 1
    /\ ai <= Len(interactions_data[ii].masters)
    /\ Attach("masters", interactions_data[ii].masters[ai])

RecreateSlave ==
    /\ phase = "interactions"
    /\ ii <= Len(interactions_data)
    /\ ai > Len(interactions_data[ii].masters)
    /\ ai <= Len(interactions_data[ii].masters)
               + Len(interactions_data[ii].slaves)
    /\ Attach("slaves", interactions_data[ii].slaves[
                            ai - Len(interactions_data[ii].masters)])

\* doc.commitChanges() and created_count += 1 at the end of the outer try
CommitInteraction ==
    /\ phase = "interactions"
    /\ ii <= Len(interactions_data)
    /\ ai >= 1
    /\ ai > Len(interactions_data[ii].masters)
               + Len(interactions_data[ii].slaves)
    /\ interactions_created' = interactions_created + 1
    /\ trace' = Append(trace, Ev("int_commit", 0, ii, 0, 0, 0))
    /\ ii' = ii + 1
    /\ ai' = 0
    /\ UNCHANGED <<geometries_data, geometries, physicalProperties,
                   elementProperties, created_physical_props,
                   created_element_props, assigned_count, failed_count, phase,
                   run, mcur, li, geom_data, best_match_score,
                   matched_subgeom_index, ri, doc0, after1, call, result>>
    /\ UNCHANGED <<interactions_data, interactions, interactions_failed,
                   interaction, interactions1>>

\* return created_count, failed_count: (0, 0) at once when there is no
\* interaction to recreate; run_copy_mode ends
ReturnInteractions ==
    /\ phase = "interactions"
    /\ ii > Len(interactions_data)
    /\ phase' = "done"
    /\ trace' = Append(trace, Ev("int_return", 0, 0, 0, interactions_created,
                                 interactions_failed))
    /\ interactions1' = IF run = 1 THEN interactions ELSE interactions1
    /\ UNCHANGED <<geometries_data, geometries, physicalProperties,
                   elementProperties, created_physical_props,
                   created_element_props, assigned_count, failed_count, run,
                   mcur, li, geom_data, best_match_score,
                   matched_subgeom_index, ri, doc0, after1, call, result>>
    /\ UNCHANGED <<interactions_data, interactions, interactions_created,
                   interactions_failed, ii, ai, interaction>>

\* the script is executed again on the same snapshot and the document as the
\* previous execution left it (the geometries are not imported again)
RunAgain ==
    /\ phase \in {"done", "aborted"}
    /\ run < MaxRuns
    /\ run' = run + 1
    /\ phase' = "materialize"
    /\ created_physical_props' = <<>>
    /\ created_element_props' = <<>>
    /\ assigned_count' = 0
    /\ failed_count' = 0
    /\ mcur' = NextRecordPos(geometries_data, 1, 1)
    /\ li' = 1
    /\ geom_data' = 0
    /\ best_match_score' = 0
    /\ matched_subgeom_index' = NotFound
    /\ ri' = 1
    /\ interactions_created' = 0
    /\ interactions_failed' = 0
    /\ ii' = 1
    /\ ai' = 0
    /\ interaction' = 0
    /\ UNCHANGED <<geometries_data, geometries, physicalProperties,
                   elementProperties, trace, doc0, after1, call, result>>
    /\ UNCHANGED <<interactions_data, interactions, interactions1>>

Next ==
    \/ MaterializePhysical
    \/ MaterializeElement
    \/ BeginAssign
    \/ CorrelateGeometry
    \/ DisambiguateGeometry
    \/ ReplayRecord
    \/ CommitGeometry
    \/ ReturnCounts
    \/ FindOrCreateInteraction
    \/ RecreateMaster
    \/ RecreateSlave
    \/ CommitInteraction
    \/ ReturnInteractions
    \/ RunAgain

Spec == Init /\ [][Next]_vars

\* --------------------------------------------------------------------------
\* The locators applied on their own
\* --------------------------------------------------------------------------
LocPts == {PA, PA1, PB, NullPt}

\* second subshape of the shape a locator scans: none, or one of these
SecondCandidates == {<<>>, <<PB>>, <<PA, PB>>}

\* a shape whose subshapes of every kind are the given vertex lists
ShapeOf(c1, c2) ==
    IF c2 = <<>>
    THEN MkShape(c1, << [j \in 1..Len(c1) |-> j - 1] >>)
    ELSE MkShape(c1 \o c2, << [j \in 1..Len(c1) |-> j - 1],
                              [j \in 1..Len(c2) |-> Len(c1) + j - 1] >>)

InitLocator ==
    /\ InitRun(<<>>, <<>>, <<>>, <<>>)
    /\ \E c1 \in SeqsUpTo(LocPts, MaxPts), c2 \in SecondCandidates,
          t \in SeqsUpTo(LocPts, MaxPts) :
          call = [op |-> "locate", shape |-> ShapeOf(c1, c2), target |-> t,
                  kind |-> "none"]
    /\ result = NotFound

\* find_subshape_by_coordinates gives the vertex locator the first target
\* point, None when there is none
LocateVertex ==
    /\ call.op = "locate"
    /\ result' = find_vertex_by_coordinates(call.shape,
                     IF call.target # <<>> THEN call.target[1] ELSE NonePt)
    /\ call' = [call EXCEPT !.op = "located", !.kind = "vertices"]
    /\ UNCHANGED runVars

LocateEdge ==
    /\ call.op = "locate"
    /\ result' = find_edge_by_vertices(call.shape, call.target)
    /\ call' = [call EXCEPT !.op = "located", !.kind = "edges"]
    /\ UNCHANGED runVars

LocateFace ==
    /\ call.op = "locate"
    /\ result' = find_face_by_vertices(call.shape, call.target)
    /\ call' = [call EXCEPT !.op = "located", !.kind = "faces"]
    /\ UNCHANGED runVars

LocateSolid ==
    /\ call.op = "locate"
    /\ result' = find_solid_by_vertices(call.shape, call.target)
    /\ call' = [call EXCEPT !.op = "located", !.kind = "solids"]
    /\ UNCHANGED runVars

NextLocator == LocateVertex \/ LocateEdge \/ LocateFace \/ LocateSolid

SpecLocator == InitLocator /\ [][NextLocator]_vars

\* --------------------------------------------------------------------------
\* The disambiguator applied on its own
\* --------------------------------------------------------------------------

\* recorded corner points of the second record
SecondGroups == {<<>>, <<PA, PB>>, <<PB, PB>>}

\* a live shape with the given vertices, and a snapshot geometry with a
\* physical and an element record of one kind; the second record is of the
\* same subshape as the first or of the next one
InitDisambiguate ==
    /\ InitRun(<<>>, <<>>, <<>>, <<>>)
    /\ \E verts \in SeqsUpTo(LocPts, MaxPts), g0 \in SeqsUpTo(LocPts, MaxPts),
          g1 \in SecondGroups, id1 \in {0, 1},
          kind \in {"edges", "faces", "solids"} :
          call = [op |-> "disambiguate",
                  shape |-> MkShape(verts, <<>>),
                  geom_data |->
                      MkSnap(Wall, "COMPOUND",
                             <<MkRec("physical", kind, 0,
                                     <<"Steel", "Elastic">>, g0),
                               MkRec("element", kind, id1,
                                     <<"Steel", "Elastic">>, g1)>>),
                  kind |-> "none"]
    /\ result = NotFound

DisambiguateCall ==
    /\ call.op = "disambiguate"
    /\ \E subgeom_type \in {"edges", "faces", "solids", "vertices"} :
          /\ result' = find_matching_subgeometry_index(call.shape,
                                                       call.geom_data,
                                                       subgeom_type)
          /\ call' = [call EXCEPT !.op = "disambiguated",
                                  !.kind = subgeom_type]
    /\ UNCHANGED runVars

NextDisambiguate == DisambiguateCall

SpecDisambiguate == InitDisambiguate /\ [][NextDisambiguate]_vars

\* --------------------------------------------------------------------------
\* The comparator applied on its own
\* --------------------------------------------------------------------------

\* a point with one coordinate absent
NullY == [k |-> "pt", x |-> 0, y |-> 0, z |-> 0, nul |-> {"y"}]

\* points at less than the tolerance, at the tolerance and beyond it on each
\* axis, and the representations of an absent point
ComparePts ==
    {PA, PA1, Pt(2, 0, 0), Pt(0 - 1, 0, 0), PB, Pt(0, 1, 0), PC, Pt(0, 0, 1),
     PD, NullPt, NullY, NonePt, NoXPt}

\* the tolerances of the calls: none, half the default, the default, more
Tolerances == {0, 1, COORD_TOLERANCE, 5}

InitComparator ==
    /\ InitRun(<<>>, <<>>, <<>>, <<>>)
    /\ \E coord1 \in ComparePts, coord2 \in ComparePts,
          tolerance \in Tolerances :
          call = [op |-> "compare", coord1 |-> coord1, coord2 |-> coord2,
                  tolerance |-> tolerance]
    /\ result = NotFound

\* result.st is "T" or "F" for the returned boolean, "E" when the call raises
Compare ==
    /\ call.op = "compare"
    /\ result' = [st |-> CoordinatesMatchWithin(call.coord1, call.coord2,
                                                call.tolerance),
                  id |-> 0]
    /\ call' = [call EXCEPT !.op = "compared"]
    /\ UNCHANGED runVars

NextComparator == Compare

SpecComparator == InitComparator /\ [][NextComparator]_vars

\* --------------------------------------------------------------------------
\* The script from its start: input checks, load of the snapshot, import
\* --------------------------------------------------------------------------

\* What json.load gives: kind "empty" for a document that is falsy ({} or
\* null), "no_geometries" for a dict without the key 'geometries', "doc" for
\* a snapshot document.
JsonData(kind, gds, ints) ==
    [kind |-> kind, geometries |-> gds, interactions |-> ints]

NoJsonData == JsonData("none", <<>>, <<>>)

\* the snapshot documents of the runs from the start: one geometry with a
\* physical and an element face record and one interaction with a master
\* and a slave; a document without geometries and interactions
SnapshotDocs ==
    {JsonData("doc",
              <<MkSnap(Wall, "FACE",
                       <<FaceRec("physical", <<"Steel", "Elastic">>),
                         FaceRec("element", <<"Steel", "Elastic">>)>>)>>,
              <<MkInt("Link",
                      [type |-> <<"MpcInteractionType", "NodeToElement">>,
                       physical_property |-> "Steel",
                       element_property |-> "Steel"],
                      <<MkAtt(Wall, "VERTEX", <<PB>>)>>,
                      <<MkAtt(Wall, "FACE", <<PA, PB>>)>>)>>),
     JsonData("doc", <<>>, <<>>)}

\* the file STKO_Analysis.json of the input folder: absent, not parsable, or
\* holding a JSON value
JsonFiles ==
    {[state |-> st, data |-> NoJsonData] : st \in {"missing", "unreadable"}}
    \cup {[state |-> "ok", data |-> d] :
             d \in SnapshotDocs \cup {JsonData("empty", <<>>, <<>>),
                                      JsonData("no_geometries", <<>>, <<>>)}}

\* the folder Geometries of the input folder: absent, or holding the
\* geometries of its .stp and .iges files
GeometryFolders ==
    {[exists |-> FALSE, files |-> <<>>]}
    \cup {[exists |-> TRUE, files |-> fs] :
             fs \in {<<>>, <<MkLive(Wall, ShapeOne)>>,
                     <<MkLive(Wall, ShapeOne), MkLive(WallA, ShapeMoved)>>}}

\* the state when the script starts: the folder dialog still to be answered,
\* the document as the user left it
InitStartup ==
    /\ \E folder \in BOOLEAN, json \in JsonFiles, gf \in GeometryFolders :
          call = [op |-> "startup", input_folder |-> folder,
                  json_file |-> json, geometries_folder |-> gf]
    /\ \E pre_ph \in PrePhysical, pre_el \in PreElement,
          pre_geoms \in {<<>>, <<MkLive(Beam, ShapeOne)>>} :
          /\ geometries = pre_geoms
          /\ physicalProperties = pre_ph
          /\ elementProperties = pre_el
          /\ doc0 = [geometries |-> pre_geoms,
                     physicalProperties |-> pre_ph,
                     elementProperties |-> pre_el]
    /\ after1 = [geometries |-> <<>>, physicalProperties |-> <<>>,
                 elementProperties |-> <<>>]
    /\ geometries_data = <<>>
    /\ interactions_data = <<>>
    /\ created_physical_props = <<>>
    /\ created_element_props = <<>>
    /\ assigned_count = 0
    /\ failed_count = 0
    /\ phase = "start"
    /\ run = 1
    /\ mcur = <<1, 1>>
    /\ li = 1
    /\ geom_data = 0
    /\ best_match_score = 0
    /\ matched_subgeom_index = NotFound
    /\ ri = 1
    /\ trace = <<>>
    /\ interactions = <<>>
    /\ interactions_created = 0
    /\ interactions_failed = 0
    /\ ii = 1
    /\ ai = 0
    /\ interaction = 0
    /\ interactions1 = <<>>
    /\ result = NotFound

\* the module-level checks of the COPY mode: `raise SystemExit` when no
\* folder was selected, when the folder has no STKO_Analysis.json, when it
\* has no folder Geometries
ModuleLevelChecks ==
    /\ phase = "start"
    /\ phase' = IF /\ call.input_folder
                   /\ call.json_file.state # "missing"
                   /\ call.geometries_folder.exists
                THEN "run_copy_mode" ELSE "exit"
    /\ UNCHANGED <<geometries_data, geometries, physicalProperties,
                   elementProperties, created_physical_props,
                   created_element_props, assigned_count, failed_count, run,
                   mcur, li, geom_data, best_match_score,
                   matched_subgeom_index, ri, trace, doc0, after1, call,
                   result>>
    /\ UNCHANGED intVars

\* variant: a file that cannot be read gives an empty snapshot document
LoadJsonDataOrDefault(json_file) ==
    IF json_file.state = "ok" THEN json_file.data
    ELSE JsonData("doc", <<>>, <<>>)

\* load_json_data: the parsed document, None (kind "none") when the file
\* cannot be opened or parsed
load_json_data(json_file) ==
    IF json_file.state = "ok" THEN json_file.data ELSE NoJsonData

\* [FASE 1] of run_copy_mode: `return` when the document is None or falsy;
\* json_data['geometries'] raises KeyError, which nothing catches, when the
\* key is not there
LoadSnapshot ==
    /\ phase = "run_copy_mode"
    /\ LET json_data == load_json_data(call.json_file) IN
       IF json_data.kind = "doc"
       THEN /\ geometries_data' = json_data.geometries
            /\ interactions_data' = json_data.interactions
            /\ phase' = "import"
       ELSE /\ phase' = "exit"
            /\ UNCHANGED <<geometries_data, interactions_data>>
    /\ UNCHANGED <<geometries, physicalProperties, elementProperties,
                   created_physical_props, created_element_props,
                   assigned_count, failed_count, run, mcur, li, geom_data,
                   best_match_score, matched_subgeom_index, ri, trace, doc0,
                   after1, call, result>>
    /\ UNCHANGED <<interactions, interactions_created, interactions_failed,
                   ii, ai, interaction, interactions1>>

\* [FASE 2] of run_copy_mode: `return` when the folder holds no file to
\* import, else each file is imported as a geometry of the document and the
\* materialization begins
ImportGeometries ==
    /\ phase = "import"
    /\ IF call.geometries_folder.files = <<>>
       THEN /\ phase' = "exit"
            /\ UNCHANGED <<geometries, mcur, trace>>
       ELSE /\ geometries' = geometries \o call.geometries_folder.files
            /\ mcur' = NextRecordPos(geometries_data, 1, 1)
            /\ trace' = Append(trace,
                               Ev("import", 0, 0, 0,
                                  Len(call.geometries_folder.files), 0))
            /\ phase' = "materialize"
    /\ UNCHANGED <<geometries_data, physicalProperties, elementProperties,
                   created_physical_props, created_element_props,
                   assigned_count, failed_count, run, li, geom_data,
                   best_match_score, matched_subgeom_index, ri, doc0, after1,
                   call, result>>
    /\ UNCHANGED intVars

NextStartup ==
    \/ ModuleLevelChecks
    \/ LoadSnapshot
    \/ ImportGeometries
    \/ Next

SpecStartup == InitStartup /\ [][NextStartup]_vars

\* --------------------------------------------------------------------------
\* Vocabulary of the properties
\* --------------------------------------------------------------------------
ReplayEvs ==
    {"filtered", "no_coords", "write", "not_created", "not_found", "error"}

\* positions in the trace of the events of execution r
EventsOf(r) == {i \in DOMAIN trace : trace[i].run = r}

\* the replay event of record j of the correlated snapshot on live geometry l
\* in execution r
ReplayEvent(r, l, j) ==
    trace[CHOOSE i \in EventsOf(r) :
             /\ trace[i].ev \in ReplayEvs
             /\ trace[i].live = l
             /\ trace[i].rec = j]

\* every record of the geometry under replay has been through its loop
Replayed ==
    /\ phase = "replay"
    /\ ri > Len(geometries_data[geom_data].records)

\* c equals some point of coords within the tolerance
Among(c, coords) ==
    \E i \in DOMAIN coords : coordinates_match(c, coords[i]) = "T"

Present(coords) == \A i \in DOMAIN coords : coords[i].k = "pt" /\ coords[i].nul = {}

\* ---- C1 ------------------------------------------------------------------
\* C1: when assign_properties_to_geometries returns, assigned_count +
\* failed_count equals the number of records selected for replay (the records
\* of the correlated snapshot of every correlated live geometry that the group
\* filter did not exclude): no selected record goes uncounted.
C1_EverySelectedRecordCounted ==
    phase = "done" =>
        assigned_count + failed_count =
            Cardinality({i \in EventsOf(run) :
                            trace[i].ev \in ReplayEvs \ {"filtered"}})

\* ---- C2 ------------------------------------------------------------------
\* C2: no condition met while correlating, disambiguating or replaying a
\* geometry stops the run, also with absent recorded coordinates: the run is
\* never left by an exception.
C2_RunIsNeverAborted == phase # "aborted"

\* ---- C3 ------------------------------------------------------------------
\* C3: a second execution of materialization and assignment on the same
\* snapshot and document creates no property, and ends with the same
\* properties and the same assignment tables as the first.
C3_IdempotentReplay ==
    run >= 2 =>
        /\ physicalProperties = after1.physicalProperties
        /\ elementProperties = after1.elementProperties
        /\ phase \in {"done", "aborted"} => Document = after1

C3_Witness ==
    /\ run = 2
    /\ phase = "done"
    /\ Len(physicalProperties) > Len(doc0.physicalProperties)
    /\ \E i \in EventsOf(2) : trace[i].ev = "write" /\ trace[i].pp # 0

\* ---- C4 ------------------------------------------------------------------
\* C4: the edge, face and solid locators report a subshape only if it has as
\* many vertices as there are target points and every target point equals
\* some vertex of the subshape within the tolerance.
LocatedCoords == ChildCoords(call.shape, call.shape[call.kind][result.id + 1])

LocatorReturned ==
    /\ call.op = "located"
    /\ call.kind \in {"edges", "faces", "solids"}

C4_TargetPointsContained ==
    (LocatorReturned /\ result.st = "found") =>
        /\ Len(LocatedCoords) = Len(call.target)
        /\ \A j \in DOMAIN call.target : Among(call.target[j], LocatedCoords)

\* ---- C5 ------------------------------------------------------------------
\* C5: the edge, face and solid locators never return a subshape whose number
\* of vertices differs from the number of target points.
C5_CardinalityGate ==
    (LocatorReturned /\ result.st = "found") =>
        Len(LocatedCoords) = Len(call.target)

\* a subshape of another size all of whose points are target points, passed
\* over by the locator
C5_Witness ==
    /\ LocatorReturned
    /\ result.st = "none"
    /\ call.target # <<>>
    /\ \E s \in DOMAIN call.shape[call.kind] :
          LET cand == ChildCoords(call.shape, call.shape[call.kind][s]) IN
          /\ cand # <<>>
          /\ Len(cand) # Len(call.target)
          /\ \A i \in DOMAIN cand : Among(cand[i], call.target)

\* ---- C6 ------------------------------------------------------------------
\* C6: when some snapshot geometry has exactly the name of the live geometry,
\* the snapshot geometry selected for it has that name, whatever the lengths
\* of the names.
C6_ExactMatchSelected ==
    phase \in {"disambiguate", "replay"} =>
        ((\E i \in DOMAIN SnapNames : SnapNames[i] = geometries[li].name)
            => SnapNames[geom_data] = geometries[li].name)

\* ---- C7 ------------------------------------------------------------------
\* C7 as stated: within one execution, the assignments of a snapshot geometry
\* go to at most one live geometry.
C7_OneLivePerSnapshot ==
    \A s \in DOMAIN geometries_data :
        Cardinality({trace[i].live : i \in {j \in EventsOf(run) :
                        trace[j].ev = "match" /\ trace[j].snap = s}}) <= 1

\* s is the first snapshot geometry with the highest score for live geometry
\* l, and that score is above 0
FirstBest(s, l) ==
    LET sc(j) == match_score(SnapNames[j], geometries[l].name) IN
    /\ sc(s) > 0
    /\ \A j \in DOMAIN SnapNames : sc(j) <= sc(s)
    /\ \A j \in 1..(s - 1) : sc(j) < sc(s)

\* C7 amended: for each live geometry at most one snapshot geometry is
\* selected, the first with the highest score, and only its records are
\* replayed onto the live geometry; one snapshot geometry may serve several
\* live geometries: with live names "Wall", "Wall_A" and one snapshot "Wall",
\* its assignment is written onto both (both bodies having the recorded
\* face).
C7_FirstBestSnapshotPerLive ==
    /\ \A i \in DOMAIN trace :
          trace[i].ev \in ReplayEvs \cup {"match"} =>
              FirstBest(trace[i].snap, trace[i].live)
    /\ \A i \in DOMAIN trace :
          trace[i].ev = "skip" =>
              \A j \in DOMAIN SnapNames :
                  match_score(SnapNames[j], geometries[trace[i].live].name) = 0
    /\ (/\ phase = "done"
        /\ SnapNames = <<Wall>>
        /\ [l \in DOMAIN geometries |-> geometries[l].name] = <<Wall, WallA>>
        /\ \A l \in DOMAIN geometries : geometries[l].shape = ShapeOne)
       => /\ geometries[1].physical.faces[1] # 0
          /\ geometries[2].physical.faces[1] # 0

C7_Witness ==
    /\ phase = "done"
    /\ SnapNames = <<Wall>>
    /\ [l \in DOMAIN geometries |-> geometries[l].name] = <<Wall, WallA>>
    /\ geometries[2].physical.faces[1] # 0
    /\ \E i \in EventsOf(run) :
          trace[i].ev = "write" /\ trace[i].live = 2 /\ trace[i].snap = 1

\* ---- C8 ------------------------------------------------------------------
\* C8: the disambiguator returns k only if a recorded vertex list of group k
\* is as long as the live vertex list and each of its points equals some live
\* vertex; it returns no index when no group is so.  The live vertex list is
\* taken as the code takes it, without the vertices that have no position.
GroupFits(k) ==
    \E i \in DOMAIN call.geom_data.records :
        LET r == call.geom_data.records[i] IN
        /\ r.kind = call.kind
        /\ r.sub_id = k
        /\ Len(r.coords) = Len(ImportedCoords(call.shape))
        /\ \A j \in DOMAIN r.coords :
              Among(r.coords[j], ImportedCoords(call.shape))

C8_GroupPointsAmongLive ==
    call.op = "disambiguated" =>
        /\ result.st = "found" => GroupFits(result.id)
        /\ (\A k \in {0, 1} : ~GroupFits(k)) => result.st # "found"

\* ---- C9 ------------------------------------------------------------------
\* the positions of the solid records of the snapshot geometry under replay
SolidRecs ==
    {j \in DOMAIN geometries_data[geom_data].records :
        geometries_data[geom_data].records[j].kind = "solids"}

\* the live vertices do not match the recorded set: another number of points,
\* or a live vertex that equals none of them
MatchesNot(shape, coords) ==
    \/ Len(coords) # Len(ImportedCoords(shape))
    \/ \E i \in DOMAIN ImportedCoords(shape) :
          ~Among(ImportedCoords(shape)[i], coords)

\* A snapshot solid with two recorded sub-solids, each with its corner points,
\* correlated with a live shape whose vertices match neither set, after the
\* replay of its records.
BroadcastScenario ==
    /\ Replayed
    /\ geometries_data[geom_data].shape_type \in {"SOLID", "COMPSOLID"}
    /\ Cardinality(SolidRecs) = 2
    /\ \A i, j \in SolidRecs :
          LET ra == geometries_data[geom_data].records[i]
              rb == geometries_data[geom_data].records[j]
          IN /\ ra.coords # <<>>
             /\ Present(ra.coords)
             /\ i # j => ra.sub_id # rb.sub_id
             /\ MatchesNot(geometries[li].shape, ra.coords)

\* some solid of the shape has as many vertices as coords and each of its
\* vertices among them
HasSolidAt(shape, coords) ==
    \E s \in DOMAIN shape.solids :
        LET cand == ChildCoords(shape, shape.solids[s]) IN
        /\ Len(cand) = Len(coords)
        /\ \A i \in DOMAIN cand : Among(cand[i], coords)

Materialized(prop_data) ==
    prop_data.property_name \in DOMAIN CreatedProps(prop_data.cls)

\* C9 as stated: in the broadcast scenario the disambiguator is unresolved and
\* both records end as assigned (their properties being materialized).
C9_BothGroupsAssigned ==
    (/\ BroadcastScenario
     /\ \A j \in SolidRecs :
           Materialized(geometries_data[geom_data].records[j]))
    => /\ matched_subgeom_index.st = "none"
       /\ \A j \in SolidRecs : ReplayEvent(run, li, j).ev = "write"

\* C9 amended: in the broadcast scenario the disambiguator is unresolved and
\* the solid locator is run for the records of both groups, none is filtered
\* out; a record is written (and counted as assigned) only at a solid the
\* locator found for its points, which happens whenever the live shape has
\* such a solid and the property is materialized, and it is counted as failed
\* when the live shape has no such solid.
C9_BothGroupsReplayed ==
    BroadcastScenario =>
        /\ matched_subgeom_index.st = "none"
        /\ \A j \in SolidRecs :
              LET prop_data == geometries_data[geom_data].records[j]
                  e == ReplayEvent(run, li, j)
                  has == HasSolidAt(geometries[li].shape, prop_data.coords)
              IN /\ e.ev \in {"write", "not_created", "not_found"}
                 /\ e.ev = "write" <=> (has /\ Materialized(prop_data))
                 /\ e.ev = "not_found" <=> ~has
                 /\ e.ev = "write" => e.pp # 0

\* both groups written: the live shape holds both sub-solids
C9_Witness ==
    /\ BroadcastScenario
    /\ \A j \in SolidRecs : ReplayEvent(run, li, j).ev = "write"
    /\ assigned_count = 2

\* ---- C10 -----------------------------------------------------------------
Props(cls) ==
    IF cls = "physical" THEN physicalProperties ELSE elementProperties

DistinctNames(props) ==
    \A i, j \in DOMAIN props : props[i].name = props[j].name => i = j

HasName(props, n) == \E i \in DOMAIN props : props[i].name = n

\* the record of a replay event
RecOf(e) == geometries_data[e.snap].records[e.rec]

\* at most one property per name; a created-map entry is the property of
\* that name; the records of one name were all written with one property
OnePerName(cls) ==
    DistinctNames(doc0[cls \o "Properties"]) =>
        /\ DistinctNames(Props(cls))
        /\ \A n \in DOMAIN CreatedProps(cls) :
              \E i \in DOMAIN Props(cls) :
                  /\ Props(cls)[i].name = n
                  /\ Props(cls)[i].id = CreatedProps(cls)[n]
        /\ \A a, b \in DOMAIN trace :
              (/\ trace[a].ev = "write"
               /\ trace[b].ev = "write"
               /\ RecOf(trace[a]).cls = cls
               /\ RecOf(trace[b]).cls = cls
               /\ RecOf(trace[a]).property_name
                     = RecOf(trace[b]).property_name)
              => trace[a].pp = trace[b].pp

\* a step that calls the get-or-create of class cls
GetOrCreateCalled(cls) ==
    /\ phase = "materialize"
    /\ mcur[1] <= Len(geometries_data)
    /\ mcur' # mcur
    /\ geometries_data[mcur[1]].records[mcur[2]].cls = cls
    /\ geometries_data[mcur[1]].records[mcur[2]].property_name
          \notin DOMAIN CreatedProps(cls)

\* the existing properties stay as they are, a call for an existing name adds
\* none and returns the existing one
ExistingKept(cls) ==
    LET prop_data == geometries_data[mcur[1]].records[mcur[2]]
        n == prop_data.property_name
    IN /\ \A i \in DOMAIN Props(cls) :
             /\ i \in DOMAIN Props(cls)'
             /\ Props(cls)'[i] = Props(cls)[i]
       /\ (GetOrCreateCalled(cls) /\ HasName(Props(cls), n)) =>
             /\ Props(cls)' = Props(cls)
             /\ n \in DOMAIN CreatedProps(cls)'
             /\ \E i \in DOMAIN Props(cls) :
                   /\ Props(cls)[i].name = n
                   /\ Props(cls)[i].id = CreatedProps(cls)'[n]

\* a call for a new name adds exactly one property, of that name
NewNameCreatesOne(cls) ==
    LET prop_data == geometries_data[mcur[1]].records[mcur[2]]
        n == prop_data.property_name
    IN (GetOrCreateCalled(cls) /\ ~HasName(Props(cls), n)) =>
          /\ Len(Props(cls)') = Len(Props(cls)) + 1
          /\ Props(cls)'[Len(Props(cls)')].name = n
          /\ Props(cls)'[Len(Props(cls)')].ptype = prop_data.property_type
          /\ CreatedProps(cls)'[n] = Props(cls)'[Len(Props(cls)')].id

\* a call for a new name adds exactly one property when its type can be
\* constructed, and none, returning None, when it cannot
NewNameCreatesOneOrFails(cls) ==
    LET prop_data == geometries_data[mcur[1]].records[mcur[2]]
        n == prop_data.property_name
    IN (GetOrCreateCalled(cls) /\ ~HasName(Props(cls), n)) =>
          IF prop_data.property_type \in KnownTypes
          THEN /\ Len(Props(cls)') = Len(Props(cls)) + 1
               /\ Props(cls)'[Len(Props(cls)')].name = n
               /\ Props(cls)'[Len(Props(cls)')].ptype = prop_data.property_type
               /\ CreatedProps(cls)'[n] = Props(cls)'[Len(Props(cls)')].id
          ELSE /\ Props(cls)' = Props(cls)
               /\ n \notin DOMAIN CreatedProps(cls)'

\* C10 as stated: per kind, from distinct names, at most one property per
\* name; a call for an existing name returns it unchanged; a call for a new
\* name creates exactly one property; records of one name are written with
\* one property.
C10_OnePropertyPerName ==
    /\ [](OnePerName("physical") /\ OnePerName("element"))
    /\ [][/\ ExistingKept("physical") /\ ExistingKept("element")
          /\ NewNameCreatesOne("physical") /\ NewNameCreatesOne("element")]_vars

\* C10 amended: as stated, except that a call for a new name creates exactly
\* one property when the property can be constructed and none when its
\* construction fails.
C10_OnePropertyPerNameUnlessFailed ==
    /\ [](OnePerName("physical") /\ OnePerName("element"))
    /\ [][/\ ExistingKept("physical") /\ ExistingKept("element")
          /\ NewNameCreatesOneOrFails("physical")
          /\ NewNameCreatesOneOrFails("element")]_vars

\* an existing property was returned for two records of its name and written
\* for both
C10_Witness ==
    /\ phase = "done"
    /\ doc0.physicalProperties # <<>>
    /\ DistinctNames(doc0.physicalProperties)
    /\ "Steel" \in DOMAIN created_physical_props
    /\ HasName(doc0.physicalProperties, "Steel")
    /\ \E a, b \in EventsOf(run) :
          /\ a # b
          /\ trace[a].ev = "write" /\ trace[b].ev = "write"
          /\ RecOf(trace[a]).cls = "physical"
          /\ RecOf(trace[b]).cls = "physical"
          /\ trace[a].pp = doc0.physicalProperties[1].id
          /\ trace[b].pp = doc0.physicalProperties[1].id
    /\ physicalProperties = doc0.physicalProperties

\* ---- C11 -----------------------------------------------------------------
\* the recorded points are the corner points of some face of the shape, in
\* any order and within the tolerance
FaceOfLive(shape, coords) ==
    /\ coords # <<>>
    /\ Present(coords)
    /\ \E f \in DOMAIN shape.faces :
          LET cand == ChildCoords(shape, shape.faces[f]) IN
          /\ Len(cand) = Len(coords)
          /\ Present(cand)
          /\ \A i \in DOMAIN cand : Among(cand[i], coords)
          /\ \A j \in DOMAIN coords : Among(coords[j], cand)

\* record j of the snapshot geometry under replay: a face record of a
\* property that can be constructed, recorded at a face the live shape has
ExactFaceRecord(j) ==
    LET prop_data == geometries_data[geom_data].records[j] IN
    /\ prop_data.kind = "faces"
    /\ prop_data.property_type \in KnownTypes
    /\ FaceOfLive(geometries[li].shape, prop_data.coords)

\* the slot of face f of the live geometry under replay holds what the last
\* record written to it gave
SlotWritten(cls, f) ==
    \E k \in EventsOf(run) :
        /\ trace[k].ev = "write"
        /\ trace[k].live = li
        /\ trace[k].id = f
        /\ RecOf(trace[k]).cls = cls
        /\ RecOf(trace[k]).kind = "faces"
        /\ geometries[li][cls].faces[f + 1] = trace[k].pp

\* C11: when the live geometry has the name of the snapshot geometry and a
\* face with the corner points recorded for a face record, then after the
\* replay the record's property exists, was written to a face slot and the
\* record is counted as assigned, whatever the snapshot's shape type and its
\* other records are; a snapshot with that single record gives assigned = 1
\* and failed = 0.
C11_ExactFaceMatchAssigned ==
    (Replayed /\ geometries_data[geom_data].name = geometries[li].name) =>
        \A j \in DOMAIN geometries_data[geom_data].records :
            ExactFaceRecord(j) =>
                LET prop_data == geometries_data[geom_data].records[j]
                    e == ReplayEvent(run, li, j)
                IN /\ HasName(Props(prop_data.cls), prop_data.property_name)
                   /\ e.ev = "write"
                   /\ e.pp = CreatedProps(prop_data.cls)[prop_data.property_name]
                   /\ SlotWritten(prop_data.cls, e.id)
                   /\ (Len(geometries_data[geom_data].records) = 1
                       /\ Len(geometries) = 1)
                      => (assigned_count = 1 /\ failed_count = 0)

\* ---- C12 -----------------------------------------------------------------
\* the materialization loops of the current execution are over
MaterializationOver == phase # "materialize"

\* the snapshot records, as <<geometry, record>> positions
AllRecords ==
    UNION {{<<g, r>> : r \in DOMAIN geometries_data[g].records} :
              g \in DOMAIN geometries_data}

\* the property of the record can be had: its type can be constructed, or the
\* document held a property of its name before
Constructible(prop_data) ==
    \/ prop_data.property_type \in KnownTypes
    \/ HasName(doc0[prop_data.cls \o "Properties"], prop_data.property_name)

\* no slot of any live geometry holds a property
NothingAttached ==
    \A l \in DOMAIN geometries : \A c \in {"physical", "element"} :
        \A k \in KindSet : \A i \in DOMAIN geometries[l][c][k] :
            geometries[l][c][k][i] = 0

\* One snapshot geometry with a single face record, one live geometry
\* correlated with it, each of whose faces has a corner away from every
\* recorded point; the execution is over.
OffsetScenario ==
    /\ phase = "done"
    /\ Len(geometries_data) = 1
    /\ Len(geometries) = 1
    /\ Len(geometries_data[1].records) = 1
    /\ geometries_data[1].records[1].kind = "faces"
    /\ geometries_data[1].records[1].coords # <<>>
    /\ Present(geometries_data[1].records[1].coords)
    /\ match_score(geometries_data[1].name, geometries[1].name) > 0
    /\ \A f \in DOMAIN geometries[1].shape.faces :
          LET cand == ChildCoords(geometries[1].shape,
                                  geometries[1].shape.faces[f])
          IN \E i \in DOMAIN cand :
                ~Among(cand[i], geometries_data[1].records[1].coords)

\* C12 as stated: every property named by a snapshot record exists in the
\* document once materialization is over, located or not; in the offset
\* scenario the run gives assigned = 0, failed = 1 and the property exists
\* and is attached to no subshape.
C12_EveryNamedPropertyExists ==
    /\ MaterializationOver =>
          \A gr \in AllRecords :
              LET prop_data == geometries_data[gr[1]].records[gr[2]] IN
              HasName(Props(prop_data.cls), prop_data.property_name)
    /\ OffsetScenario =>
          /\ assigned_count = 0
          /\ failed_count = 1
          /\ NothingAttached

\* C12 amended: every property named by a snapshot record exists in the
\* document once materialization is over, located or not, when it can be
\* constructed (or the document held one of that name), and none of that
\* name exists when its construction failed; in the offset scenario the run
\* gives assigned = 0, failed = 1 and nothing is attached to any subshape.
C12_ConstructiblePropertyExists ==
    /\ MaterializationOver =>
          \A gr \in AllRecords :
              LET prop_data == geometries_data[gr[1]].records[gr[2]] IN
              HasName(Props(prop_data.cls), prop_data.property_name)
                  <=> Constructible(prop_data)
    /\ OffsetScenario =>
          /\ assigned_count = 0
          /\ failed_count = 1
          /\ NothingAttached

\* the offset scenario with a property created by the run
C12_Witness ==
    /\ OffsetScenario
    /\ failed_count = 1
    /\ doc0.physicalProperties = <<>>
    /\ geometries_data[1].records[1].cls = "physical"
    /\ HasName(physicalProperties, geometries_data[1].records[1].property_name)
    /\ NothingAttached

\* ---- C13 -----------------------------------------------------------------
\* assign_properties_to_geometries has been left, by its return or by an
\* exception
AssignOver == phase \in {"interactions", "done", "aborted"}

\* live geometry l was correlated with a snapshot geometry in this execution
Correlated(l) ==
    \E i \in EventsOf(run) : trace[i].ev = "match" /\ trace[i].live = l

\* positions in the trace of the calls of doc.commitChanges made for l
CommitsOf(l) ==
    {i \in EventsOf(run) : trace[i].ev = "commit" /\ trace[i].live = l}

\* positions in the trace of the passes of the replay loops made for l
ReplaysOf(l) ==
    {i \in EventsOf(run) : trace[i].ev \in ReplayEvs /\ trace[i].live = l}

\* C13: in the assignment replay doc.commitChanges is called exactly once for
\* each correlated live geometry and never for another, after all the writes
\* of that geometry and before any write of a later geometry, so never
\* between two writes of one geometry.
C13_OneCommitPerCorrelatedGeometry ==
    \A l \in DOMAIN geometries :
        /\ (AssignOver /\ Correlated(l)) => Cardinality(CommitsOf(l)) = 1
        /\ ~Correlated(l) => CommitsOf(l) = {}
        /\ \A c \in CommitsOf(l) :
              /\ \A w \in ReplaysOf(l) : w < c
              /\ \A m \in DOMAIN geometries :
                    m > l => \A w \in ReplaysOf(m) : c < w

\* ---- C14 -----------------------------------------------------------------
\* C14: an execution of the whole reconciliation on the document a first
\* execution produced, with the same snapshot, ends with the document as the
\* first left it: same properties, same assignment tables, same interactions
\* and for each interaction the same lists of masters and slaves.
C14_IdempotentReconciliation ==
    (run >= 2 /\ phase = "done") =>
        /\ Document = after1
        /\ Len(interactions) = Len(interactions1)
        /\ \A i \in DOMAIN interactions :
              /\ interactions[i].masters = interactions1[i].masters
              /\ interactions[i].slaves = interactions1[i].slaves
              /\ interactions[i] = interactions1[i]

\* ---- C15 -----------------------------------------------------------------
AttEvs == {"att_no_geometry", "att_not_found", "att_error", "att_added"}

\* the attachment record of an attachment event
AttOf(e) ==
    LET int_data == interactions_data[e.snap] IN
    IF e.rec <= Len(int_data.masters) THEN int_data.masters[e.rec]
    ELSE int_data.slaves[e.rec - Len(int_data.masters)]

\* live geometry l is a candidate of the attachment: its name is the
\* recorded geometry name or contains it
IsCandidate(l, att) ==
    \/ geometries[l].name = att.geometry_name
    \/ IsSubstring(att.geometry_name, geometries[l].name)

\* what the locator of the attachment's kind gives in live geometry l
LocatedIn(l, att) ==
    find_subshape_by_coordinates(geometries[l].shape, att.vertex_coordinates,
                                 att.subshape_type)

\* l is the first candidate, in document order, in which the locator finds
\* a subshape
FirstFinding(l, att) ==
    /\ IsCandidate(l, att)
    /\ LocatedIn(l, att).st = "found"
    /\ \A m \in 1..(l - 1) :
          IsCandidate(m, att) => LocatedIn(m, att).st # "found"

\* C15: each master or slave attachment is bound to the first live geometry,
\* in document order, whose name equals or contains the recorded geometry
\* name and in which the locator of the attachment's kind finds a subshape,
\* at the index the locator returned; it is bound to nothing only when there
\* is no such geometry.
C15_BoundToFirstFindingCandidate ==
    \A i \in DOMAIN trace :
        trace[i].ev \in AttEvs =>
            LET att == AttOf(trace[i]) IN
            /\ trace[i].ev = "att_added" =>
                  /\ FirstFinding(trace[i].live, att)
                  /\ trace[i].id = LocatedIn(trace[i].live, att).id
            /\ (\E l \in DOMAIN geometries : FirstFinding(l, att))
                  => trace[i].ev = "att_added"

\* ---- C16 -----------------------------------------------------------------
\* the attachment resolves: some candidate holds the subshape and the
\* locator neither found nor raised in a candidate before it
Resolves(att) ==
    \E l \in DOMAIN geometries :
        /\ IsCandidate(l, att)
        /\ LocatedIn(l, att).st = "found"
        /\ \A m \in 1..(l - 1) :
              IsCandidate(m, att) => LocatedIn(m, att).st = "none"

\* positions in the trace of the attachments of this execution that ended
\* without an item
FailedAttachments ==
    {i \in EventsOf(run) : trace[i].ev \in AttEvs \ {"att_added"}}

\* number of items the interactions of the document hold
RECURSIVE ItemsFrom(_, _)
ItemsFrom(ints, i) ==
    IF i > Len(ints) THEN 0
    ELSE Len(ints[i].masters) + Len(ints[i].slaves) + ItemsFrom(ints, i + 1)

\* C16: an attachment without candidate geometry, without matching subshape
\* or whose processing raises adds one to the failure count and no item to
\* the interaction, and the remaining masters and slaves of the record are
\* still attempted: the failure count is the number of such attachments, the
\* items are as many as the attachments that resolved, and when the record
\* is committed each of its attachments has been attempted.
C16_FailedAttachmentCountedOnce ==
    /\ \A i \in DOMAIN trace :
          trace[i].ev \in AttEvs =>
              (trace[i].ev = "att_added" <=> Resolves(AttOf(trace[i])))
    /\ interactions_failed = Cardinality(FailedAttachments)
    /\ ItemsFrom(interactions, 1) =
          Cardinality({i \in DOMAIN trace : trace[i].ev = "att_added"})
    /\ \A c \in EventsOf(run) :
          trace[c].ev = "int_commit" =>
              LET int_data == interactions_data[trace[c].snap] IN
              \A a \in 1..(Len(int_data.masters) + Len(int_data.slaves)) :
                  \E i \in EventsOf(run) :
                      /\ i < c
                      /\ trace[i].ev \in AttEvs
                      /\ trace[i].snap = trace[c].snap
                      /\ trace[i].rec = a

\* an attachment whose processing raised, then one of the same record that
\* was added
C16_Witness ==
    /\ phase = "done"
    /\ interactions_failed = 1
    /\ \E i, k \in EventsOf(run) :
          /\ i < k
          /\ trace[i].ev = "att_error"
          /\ trace[k].ev = "att_added"
          /\ trace[i].snap = trace[k].snap

\* ---- C17 -----------------------------------------------------------------
\* the point is absent: None, a dict without coordinates, or the dict whose
\* coordinates are all None
Absent(coord) ==
    \/ coord.k \in {"none", "nox"}
    \/ coord.nul = {"x", "y", "z"}

\* C17: coordinates_match returns False and does not raise whenever one of
\* the two points is absent, in each of the forms the engine produces.
C17_AbsentPointGivesFalse ==
    (call.op = "compared" /\ (Absent(call.coord1) \/ Absent(call.coord2)))
        => result.st = "F"

\* ---- C18 -----------------------------------------------------------------
\* the target the locator of the call was given
LocatorTarget ==
    IF call.kind = "vertices"
    THEN IF call.target # <<>> THEN call.target[1] ELSE NonePt
    ELSE call.target

\* some subshape of the requested kind matches the target: a vertex equal to
\* the target point; an edge, face or solid that passes the locator's test
SomeSubshapeMatches ==
    IF call.kind = "vertices"
    THEN \E v \in DOMAIN call.shape.verts :
            coordinates_match(call.shape.verts[v], LocatorTarget) = "T"
    ELSE \E s \in DOMAIN call.shape[call.kind] :
            CandidateMatches(ChildCoords(call.shape, call.shape[call.kind][s]),
                             call.target)

\* C18: none of the four locators raises, and each returns None when no
\* subshape of the live shape matches the target, also when coordinates of a
\* live vertex or of a target point are absent.
C18_LocatorsNeverRaise ==
    call.op = "located" =>
        /\ result.st # "raise"
        /\ ~SomeSubshapeMatches => result.st = "none"

\* ---- C19 -----------------------------------------------------------------
\* subshape i (0-based) of the requested kind satisfies the locator's test
SubshapeMatches(i) ==
    IF call.kind = "vertices"
    THEN coordinates_match(call.shape.verts[i + 1], LocatorTarget) = "T"
    ELSE CandidateMatches(ChildCoords(call.shape,
                                      call.shape[call.kind][i + 1]),
                          call.target)

\* the indices of the subshapes of the requested kind
SubshapeIds == 0..(NumSub(call.shape, call.kind) - 1)

\* C19: when one or several subshapes of the requested kind satisfy the
\* locator's test, the locator returns the smallest of their indices; it
\* returns None only when none satisfies it.
C19_SmallestMatchingIndex ==
    call.op = "located" =>
        /\ \A i \in SubshapeIds :
              (SubshapeMatches(i)
               /\ \A j \in SubshapeIds : j < i => ~SubshapeMatches(j))
              => result = Found(i)
        /\ result.st = "none" => \A i \in SubshapeIds : ~SubshapeMatches(i)

\* ---- C20 -----------------------------------------------------------------
\* the score of the pair as the claim gives it
ClaimedScore(snapshot_name, live_name) ==
    CASE snapshot_name = live_name -> 100
      [] /\ snapshot_name # live_name
         /\ IsSubstring(snapshot_name, live_name) -> 50 + Len(snapshot_name)
      [] /\ snapshot_name # live_name
         /\ ~IsSubstring(snapshot_name, live_name)
         /\ IsSubstring(live_name, snapshot_name) -> 30 + Len(live_name)
      [] OTHER -> 0

\* C20: the score of a (snapshot name, live name) pair is 100 for equal
\* names, else 50 + len(snapshot name) when the snapshot name is a substring
\* of the live name, else 30 + len(live name) when the live name is a
\* substring of the snapshot name, else 0; the snapshot geometry selected for
\* a live geometry has the highest score, strictly above the score of every
\* snapshot geometry before it, and a best score of 0 selects none.
C20_ScoreAndStrictMaximum ==
    /\ phase \in {"disambiguate", "replay"} =>
          LET live_name == geometries[li].name IN
          /\ geom_data \in DOMAIN SnapNames
          /\ best_match_score = ClaimedScore(SnapNames[geom_data], live_name)
          /\ best_match_score > 0
          /\ \A j \in DOMAIN SnapNames :
                ClaimedScore(SnapNames[j], live_name) <= best_match_score
          /\ \A j \in 1..(geom_data - 1) :
                ClaimedScore(SnapNames[j], live_name) < best_match_score
    /\ \A i \in EventsOf(run) :
          trace[i].ev = "skip" =>
              \A j \in DOMAIN SnapNames :
                  ClaimedScore(SnapNames[j], geometries[trace[i].live].name)
                      = 0

\* two snapshot geometries with scores above 0, the second selected: the
\* live name is a substring of the first name and equal to the second
C20_Witness ==
    /\ phase = "disambiguate"
    /\ Len(SnapNames) = 2
    /\ geom_data = 2
    /\ best_match_score = 100
    /\ ClaimedScore(SnapNames[1], geometries[li].name)
          = 30 + Len(geometries[li].name)

\* ---- C21 -----------------------------------------------------------------
\* no live geometry scores above 0 against snapshot geometry s
UnmatchedSnapshot(s) ==
    \A l \in DOMAIN geometries :
        ClaimedScore(SnapNames[s], geometries[l].name) = 0

\* no snapshot geometry scores above 0 against live geometry l
UnmatchedLive(l) ==
    \A s \in DOMAIN SnapNames :
        ClaimedScore(SnapNames[s], geometries[l].name) = 0

\* positions in the trace of the replay passes of the records of snapshot
\* geometry s
ReplaysFrom(s) ==
    {i \in DOMAIN trace : trace[i].ev \in ReplayEvs /\ trace[i].snap = s}

\* C21 as stated: for every snapshot geometry against which no live geometry
\* scores above 0, a miss naming that snapshot geometry is reported and none
\* of its records is replayed onto any live geometry.
C21_MissReportedPerSnapshot ==
    phase = "done" =>
        \A s \in DOMAIN geometries_data :
            UnmatchedSnapshot(s) =>
                /\ \E i \in EventsOf(run) :
                      trace[i].ev = "skip" /\ trace[i].snap = s
                /\ ReplaysFrom(s) = {}

\* C21 amended: the miss is reported per live geometry: each live geometry
\* the assignment loop has passed against which no snapshot geometry scores
\* above 0 has a skip reported that names the live geometry, and no record is
\* replayed onto it; a skip is reported for no other live geometry; a
\* snapshot geometry against which no live geometry scores above 0 has none
\* of its records replayed, and no report names it.
C21_MissReportedPerLiveGeometry ==
    /\ \A l \in 1..(li - 1) :
          UnmatchedLive(l) =>
              /\ \E i \in EventsOf(run) :
                    trace[i].ev = "skip" /\ trace[i].live = l
              /\ ReplaysOf(l) = {}
    /\ \A i \in DOMAIN trace :
          trace[i].ev = "skip" =>
              (UnmatchedLive(trace[i].live) /\ trace[i].snap = 0)
    /\ \A s \in DOMAIN geometries_data :
          UnmatchedSnapshot(s) =>
              /\ ReplaysFrom(s) = {}
              /\ \A i \in DOMAIN trace : trace[i].snap = s =>
                    trace[i].ev \notin {"skip", "match", "commit"}

\* a run with a snapshot geometry and a live geometry that score 0 against
\* each other, next to a live geometry that was correlated and written
C21_Witness ==
    /\ phase = "done"
    /\ \E s \in DOMAIN geometries_data : UnmatchedSnapshot(s)
    /\ \E i \in EventsOf(run) :
          trace[i].ev = "skip" /\ UnmatchedLive(trace[i].live)
    /\ interactions_data = <<>>

\* ---- C22 -----------------------------------------------------------------
\* the XObject of the type has the parameter and takes its value: the
\* attribute exists, has a field for the type of the value, and its write
\* does not raise
Applicable(param, prop_type) ==
    /\ param.name \in DOMAIN XObjectAttributes(prop_type)
    /\ ValueField(XObjectAttributes(prop_type)[param.name], param.value)
          # "none"
    /\ ~XObjectAttributes(prop_type)[param.name].rejects

\* what a materialization step that calls the get-or-create of class cls for
\* a name the document does not hold must do
FailedCreationIsolated(cls) ==
    LET prop_data == geometries_data[mcur[1]].records[mcur[2]]
        n == prop_data.property_name
    IN (GetOrCreateCalled(cls) /\ ~HasName(Props(cls), n)) =>
          IF prop_data.property_type \notin KnownTypes
          THEN /\ Props(cls)' = Props(cls)
               /\ n \notin DOMAIN CreatedProps(cls)'
               /\ trace'[Len(trace')].ev = "create_failed"
               /\ trace'[Len(trace')].pp = 0
               /\ phase' = "materialize"
               /\ mcur' = NextRecordPos(geometries_data, mcur[1], mcur[2] + 1)
          ELSE /\ Len(Props(cls)') = Len(Props(cls)) + 1
               /\ n \in DOMAIN CreatedProps(cls)'
               /\ LET new_pp == Props(cls)'[Len(Props(cls)')] IN
                  /\ new_pp.name = n
                  /\ new_pp.id = CreatedProps(cls)'[n]
                  /\ \A k \in DOMAIN prop_data.parameters :
                        LET param == prop_data.parameters[k] IN
                        Applicable(param, prop_data.property_type) =>
                            new_pp.params[param.name].val = param.value.v

\* C22: when the construction of a property fails (unknown type identifier),
\* the get-or-create returns None, the created-properties map gets no entry
\* for the name and materialization goes on with the next record; a failure
\* while one parameter is applied prevents neither the application of the
\* remaining parameters nor the creation and registration of the property.
C22_FailedCreationIsolated ==
    [][FailedCreationIsolated("physical")
       /\ FailedCreationIsolated("element")]_vars

\* a creation that failed, and a property created although the write of one
\* of its parameters raised, with the parameter after that one applied
C22_Witness ==
    /\ phase = "done"
    /\ \E i \in EventsOf(run) : trace[i].ev = "create_failed"
    /\ \E i \in DOMAIN physicalProperties :
          /\ physicalProperties[i].ptype = "Elastic"
          /\ physicalProperties[i].params["rho"].val = 0
          /\ physicalProperties[i].params["label"].val = 5
          /\ physicalProperties[i].params["E"].val = 210
    /\ "Conc" \notin DOMAIN created_physical_props

\* ---- C23 -----------------------------------------------------------------
\* the largest id among the properties, 0 when there is none
MaxId(props) ==
    IF props = <<>> THEN 0
    ELSE CHOOSE m \in {props[i].id : i \in DOMAIN props} :
            \A i \in DOMAIN props : props[i].id <= m

DistinctIds(props) ==
    \A i, j \in DOMAIN props : props[i].id = props[j].id => i = j

\* a step that adds properties of class cls adds one, with the largest id
\* plus one
NewIdIsMaxPlusOne(cls) ==
    Props(cls)' # Props(cls) =>
        /\ Len(Props(cls)') = Len(Props(cls)) + 1
        /\ \A i \in DOMAIN Props(cls) : Props(cls)'[i] = Props(cls)[i]
        /\ Props(cls)'[Len(Props(cls)')].id = MaxId(Props(cls)) + 1

\* C23: a newly created property gets the id (largest id among the
\* document's properties of its kind) + 1, and after any sequence of
\* creations the ids of the properties of one kind are pairwise distinct.
C23_FreshIdIsMaxPlusOne ==
    /\ [](DistinctIds(physicalProperties) /\ DistinctIds(elementProperties))
    /\ [][NewIdIsMaxPlusOne("physical") /\ NewIdIsMaxPlusOne("element")]_vars

\* two properties created one after the other in a document whose largest
\* id is not the number of its properties
C23_Witness ==
    /\ phase = "done"
    /\ Len(doc0.physicalProperties) = 1
    /\ doc0.physicalProperties[1].id = 3
    /\ Len(physicalProperties) = 3
    /\ physicalProperties[2].id = 4
    /\ physicalProperties[3].id = 5

\* ---- C24 -----------------------------------------------------------------
\* the snapshot document is missing or cannot be read, or the folder
\* Geometries is missing
PreconditionFails ==
    \/ call.json_file.state \in {"missing", "unreadable"}
    \/ ~call.geometries_folder.exists

\* C24: when the snapshot document is missing or unreadable, or the folder
\* Geometries is missing, the run stops before any reconciliation work: it
\* never reaches the import, no geometry is imported, no property created,
\* no assignment written, no commit issued (the trace of the run stays
\* empty) and the document is as it was before the run.
C24_PreconditionFailureStopsRun ==
    PreconditionFails =>
        /\ phase \in {"start", "run_copy_mode", "exit"}
        /\ Document = doc0
        /\ trace = <<>>
        /\ interactions = <<>>
        /\ created_physical_props = <<>>
        /\ created_element_props = <<>>
        /\ assigned_count = 0

\* a run stopped by load_json_data on a file that cannot be parsed, in a
\* folder that holds geometries to import, on a document that is not empty
C24_Witness ==
    /\ phase = "exit"
    /\ call.input_folder
    /\ call.json_file.state = "unreadable"
    /\ call.geometries_folder.files # <<>>
    /\ geometries # <<>>
    /\ physicalProperties # <<>>

\* ---- C25 -----------------------------------------------------------------
\* the point has its three coordinates
PresentPoint(coord) == coord.k = "pt" /\ coord.nul = {}

\* C25: for all present points p and q and every tolerance, the comparison
\* of p with q gives what the comparison of q with p gives.
C25_ToleranceSymmetry ==
    (/\ call.op = "compared"
     /\ PresentPoint(call.coord1)
     /\ PresentPoint(call.coord2))
    => result.st = CoordinatesMatchWithin(call.coord2, call.coord1,
                                          call.tolerance)

\* two different points that are equal within a tolerance which is not the
\* default, the second having the smaller coordinate
C25_Witness ==
    /\ call.op = "compared"
    /\ PresentPoint(call.coord1)
    /\ PresentPoint(call.coord2)
    /\ call.coord2.x < call.coord1.x
    /\ call.coord1.x - call.coord2.x > COORD_TOLERANCE
    /\ call.tolerance # COORD_TOLERANCE
    /\ result.st = "T"

\* ---- C26 -----------------------------------------------------------------
\* the kind of subshape the disambiguation is made for, from the snapshot's
\* shape type; "none" when no disambiguation is made
DisambiguatedKind(shape_type) ==
    IF shape_type \in {"SOLID", "COMPSOLID"} THEN "solids"
    ELSE IF shape_type = "EDGE" THEN "edges"
    ELSE IF shape_type = "FACE" THEN "faces"
    ELSE "none"

\* C26: when the disambiguation resolves to group index k for the kind given
\* by the snapshot's shape type, only the records of that kind are filtered
\* by k: the records of every other kind of the correlated snapshot geometry
\* are all replayed, whatever their own index, and a record of that kind is
\* filtered out exactly when its index is not k.
C26_FilterOnlyDisambiguatedKind ==
    (Replayed /\ matched_subgeom_index.st = "found") =>
        \A j \in DOMAIN geometries_data[geom_data].records :
            LET prop_data == geometries_data[geom_data].records[j]
                filtered == ReplayEvent(run, li, j).ev = "filtered"
            IN IF prop_data.kind
                    = DisambiguatedKind(geometries_data[geom_data].shape_type)
               THEN filtered <=> prop_data.sub_id # matched_subgeom_index.id
               ELSE ~filtered

\* ---- C27 -----------------------------------------------------------------
\* no group index is in force for the geometry under replay: the snapshot's
\* shape type is none for which the disambiguation runs, or the
\* disambiguator reported unresolved
NoGroupIndex ==
    LET gd == geometries_data[geom_data]
        kind == DisambiguatedKind(gd.shape_type)
    IN \/ kind = "none"
       \/ find_matching_subgeometry_index(geometries[li].shape, gd, kind).st
             = "none"

\* the events of a replay pass in which the locator was run
LocatedEvs == {"write", "not_created", "not_found", "error"}

AtUnmatchedLive ==
    /\ phase = "correlate"
    /\ li <= Len(geometries)
    /\ UnmatchedLive(li)

\* the events of a geometry that is disambiguated, replayed or committed
WorkEvs == ReplayEvs \cup {"match", "group", "all_groups", "abort", "commit"}

\* C28: a live geometry whose best correlation score is 0 goes directly to
\* Done: the step that handles it writes none of its assignment tables,
\* changes neither assigned_count nor failed_count, runs no disambiguation,
\* issues no commit and goes on to the next live geometry; no execution has
\* an event of disambiguation, replay or commit for such a geometry, whose
\* tables stay empty.
C28_UnmatchedLiveSkipped ==
    /\ [][AtUnmatchedLive =>
             /\ li' = li + 1
             /\ phase' = "correlate"
             /\ geometries' = geometries
             /\ assigned_count' = assigned_count
             /\ failed_count' = failed_count
             /\ matched_subgeom_index' = matched_subgeom_index
             /\ trace' = Append(trace, Ev("skip", li, 0, 0, 0, 0))]_vars
    /\ [](\A l \in DOMAIN geometries :
             UnmatchedLive(l) =>
                 /\ \A i \in DOMAIN trace :
                       trace[i].live = l => trace[i].ev \notin WorkEvs
                 /\ geometries[l].physical = EmptyTables(geometries[l].shape)
                 /\ geometries[l].element = EmptyTables(geometries[l].shape))

\* a skipped live geometry, then one that was correlated, written and
\* committed
C28_Witness ==
    /\ phase = "done"
    /\ Len(geometries) >= 2
    /\ UnmatchedLive(1)
    /\ ~UnmatchedLive(2)
    /\ assigned_count = 1
    /\ \E i, k \in EventsOf(run) :
          /\ i < k
          /\ trace[i].ev = "skip" /\ trace[i].live = 1
          /\ trace[k].ev = "commit" /\ trace[k].live = 2

\* ---- C29 -----------------------------------------------------------------
\* the events of a replay pass that ended in a failure
FailureEvs == {"not_found", "error"}

\* C29: no early exit during the replay: after a record of a geometry
\* failed (subshape not found, or an exception while locating or writing),
\* every later record of that geometry, of every kind and of both classes,
\* is still gone through, and so is every later live geometry.
C29_NoEarlyExit ==
    AssignOver =>
        \A f \in EventsOf(run) :
            trace[f].ev \in FailureEvs =>
                /\ \A j \in DOMAIN geometries_data[trace[f].snap].records :
                      j > trace[f].rec =>
                          \E i \in EventsOf(run) :
                              /\ i > f
                              /\ trace[i].ev \in ReplayEvs
                              /\ trace[i].live = trace[f].live
                              /\ trace[i].rec = j
                /\ \A m \in DOMAIN geometries :
                      m > trace[f].live =>
                          /\ \E i \in EventsOf(run) :
                                /\ i > f
                                /\ trace[i].ev \in {"skip", "match"}
                                /\ trace[i].live = m
                          /\ \A i \in EventsOf(run) :
                                (trace[i].ev = "match" /\ trace[i].live = m)
                                => \E c \in EventsOf(run) :
                                      /\ trace[c].ev = "commit"
                                      /\ trace[c].live = m

\* ---- C30 -----------------------------------------------------------------
OtherClass(cls) == IF cls = "physical" THEN "element" ELSE "physical"

\* the created-properties map of the class, as run_copy_mode holds it
CreatedMap(cls) ==
    IF cls = "physical" THEN created_physical_props ELSE created_element_props

\* every write gave its record a property of the record's own class and name
WrittenFromOwnClass ==
    \A i \in DOMAIN trace :
        trace[i].ev = "write" =>
            LET r == RecOf(trace[i]) IN
            \E p \in DOMAIN Props(r.cls) :
                /\ Props(r.cls)[p].id = trace[i].pp
                /\ Props(r.cls)[p].name = r.property_name

\* a get-or-create of class cls leaves the properties and the map of the
\* other class as they are, and creates a property of its own class also
\* when the other class holds one of that name
OtherClassUntouched(cls) ==
    LET prop_data == geometries_data[mcur[1]].records[mcur[2]]
        n == prop_data.property_name
    IN GetOrCreateCalled(cls) =>
          /\ Props(OtherClass(cls))' = Props(OtherClass(cls))
          /\ CreatedMap(OtherClass(cls))' = CreatedMap(OtherClass(cls))
          /\ (/\ ~HasName(Props(cls), n)
              /\ HasName(Props(OtherClass(cls)), n)
              /\ prop_data.property_type \in KnownTypes)
             => /\ Len(Props(cls)') = Len(Props(cls)) + 1
                /\ Props(cls)'[Len(Props(cls)')].name = n

\* a replay pass writes at most one slot, in the table of the class of its
\* record, with the property the map of that class holds for its name
WritesOwnTable ==
    (phase = "replay" /\ geometries' # geometries) =>
        LET prop_data == geometries_data[geom_data].records[ri]
            cls == prop_data.cls
        IN /\ \A l \in DOMAIN geometries :
                 /\ geometries'[l][OtherClass(cls)]
                       = geometries[l][OtherClass(cls)]
                 /\ l # li => geometries'[l] = geometries[l]
           /\ prop_data.property_name \in DOMAIN CreatedMap(cls)
           /\ \E f \in DOMAIN geometries[li][cls][prop_data.kind] :
                 geometries'[li][cls] =
                     [geometries[li][cls] EXCEPT ![prop_data.kind][f] =
                         CreatedMap(cls)[prop_data.property_name]]

\* C30: physical and element properties are never cross-matched: a physical
\* record is only written to a physical assignment table, with a property
\* of the document's physical properties, and an element record only to an
\* element table with an element property, also when a physical and an
\* element property have the same name; the get-or-create of one kind
\* leaves the properties of the other kind as they are and creates its own
\* property whatever the other kind holds.
C30_KindsNeverCrossMatched ==
    /\ []WrittenFromOwnClass
    /\ [][/\ OtherClassUntouched("physical")
          /\ OtherClassUntouched("element")
          /\ WritesOwnTable]_vars

\* a physical and an element property of one name and different ids, each
\* written to the face of its own table
C30_Witness ==
    /\ phase = "done"
    /\ "Steel" \in DOMAIN created_physical_props
    /\ "Steel" \in DOMAIN created_element_props
    /\ created_physical_props["Steel"] # created_element_props["Steel"]
    /\ geometries[1].physical.faces[1] = created_physical_props["Steel"]
    /\ geometries[1].element.faces[1] = created_element_props["Steel"]
    /\ \E a, b \in EventsOf(run) :
          /\ trace[a].ev = "write" /\ RecOf(trace[a]).cls = "physical"
          /\ trace[b].ev = "write" /\ RecOf(trace[b]).cls = "element"

====
